---------------------------- MODULE Spec2Model ----------------------------
(***************************************************************************)
(* Verification model of slightc/subconverter-next: the link parsers, the  *)
(* subscription decoder, node de-duplication, the proxy-group grammar and  *)
(* the proxy-group resolver.                                               *)
(*                                                                         *)
(* JavaScript strings are TLA+ strings (TLC evaluates Len, \o and SubSeq   *)
(* on them); indices are 0-based as in the source, and the helpers below   *)
(* follow the String.prototype methods the source calls.                   *)
(***************************************************************************)
EXTENDS Integers, Sequences, FiniteSets, TLC

VARIABLES
    pc,               \* position of the operation being exercised
    nodes,            \* route.ts `nodes`: the node list flowing through the pipeline
    input,            \* the node list the request started from
    groupLines,       \* values of the custom_proxy_group lines of the remote config
    proxyNames,       \* generateProxyGroups `proxyNames`
    configs,          \* ParsedConfig.proxyGroups
    cursor,           \* number of configs the second pass of generateProxyGroups has handled
    group,            \* generateProxyGroups `group`: the result for the config handled last
    generatedGroups,  \* generateProxyGroups `generatedGroups`
    origin,           \* the parts the link under test was composed from
    link,             \* input string of a link parser
    parsed,           \* result of parseLink(link)
    relink,           \* nodeToLink(parsed)
    reparsed,         \* parseLink(relink)
    content,          \* input of parseSubscription
    subNodes,         \* result of parseSubscription
    request,          \* GET: the parameters of the request
    fetched,          \* GET: what fetchSubscription returned
    response,         \* GET: the response returned
    parsedConfig,     \* the parsed config: enableRuleGenerator and the ruleset entries
    proxyGroups,      \* names of the generated proxy groups
    rulesetCache,     \* rulesetCache of ruleset.ts, URL to body
    entry,            \* position of loadAllRulesets in the ruleset entries
    allRules,         \* allRules of loadAllRulesets
    rules,            \* rule list handed to generateFullClashConfig
    fetchLog,         \* loadRuleset: the fetches issued, in order, with their outcome
    generatorOptions, \* GET: the options handed to the generators
    clashProxySeq,    \* proxies list of the Clash document
    clock,            \* logical time of the process: advanced by every cache clear and every fetch issued
    conversions       \* the full-config conversions in progress, each with its position in generateWithConfig

dedupVars == <<nodes, input>>
groupVars == <<groupLines, proxyNames, configs, cursor, group, generatedGroups>>
linkVars == <<origin, link, parsed, relink, reparsed>>
subVars == <<content, subNodes>>
routeVars == <<request, fetched, response>>
ruleVars == <<parsedConfig, proxyGroups, rulesetCache, entry, allRules, rules, fetchLog>>
clashVars == <<generatorOptions, clashProxySeq>>
convVars == <<clock, conversions>>

vars == <<pc, dedupVars, groupVars, linkVars, subVars, routeVars, ruleVars, clashVars, convVars>>

\* the values JavaScript calls null and undefined
Null == [null |-> TRUE]
IsNull(x) == "null" \in DOMAIN x
Undefined == "<undefined>"
Falsy(s) == s = "" \/ s = Undefined

-----------------------------------------------------------------------------
(* String primitives                                                       *)

\* s.charAt(i)
CharAt(s, i) == IF i >= 0 /\ i < Len(s) THEN SubSeq(s, i + 1, i + 1) ELSE ""

\* s.slice(a, b) with 0 <= a, b (negative arguments are not used by the model)
Slice(s, a, b) ==
    LET hi == IF b > Len(s) THEN Len(s) ELSE b
    IN  IF a >= hi THEN "" ELSE SubSeq(s, a + 1, hi)

\* s.slice(a) / s.substring(a)
SliceFrom(s, a) == Slice(s, a, Len(s))

\* s.startsWith(p)
StartsWith(s, p) == Len(p) <= Len(s) /\ SubSeq(s, 1, Len(p)) = p

\* s.endsWith(p)
EndsWith(s, p) ==
    Len(p) <= Len(s) /\ SubSeq(s, Len(s) - Len(p) + 1, Len(s)) = p

\* the 0-based positions at which t occurs in s
Occurrences(s, t) ==
    {i \in 0..(Len(s) - Len(t)) : SubSeq(s, i + 1, i + Len(t)) = t}

\* s.indexOf(t)
IndexOf(s, t) ==
    LET First(occ) == IF occ = {} THEN -1 ELSE CHOOSE i \in occ : \A j \in occ : i <= j
    IN  First(Occurrences(s, t))

\* s.lastIndexOf(t)
LastIndexOf(s, t) ==
    LET Last(occ) == IF occ = {} THEN -1 ELSE CHOOSE i \in occ : \A j \in occ : i >= j
    IN  Last(Occurrences(s, t))

\* s.includes(t)
Includes(s, t) == Occurrences(s, t) # {}

\* s.replace(t, r) with a string pattern: the first occurrence only
ReplaceFirst(s, t, r) ==
    LET At(i) == IF i = -1 THEN s ELSE Slice(s, 0, i) \o r \o SliceFrom(s, i + Len(t))
    IN  At(IndexOf(s, t))

\* s.split(sep) for a one-character separator
RECURSIVE Split(_, _)
Split(s, sep) ==
    LET At(i) == IF i = -1 THEN <<s>>
                 ELSE <<Slice(s, 0, i)>> \o Split(SliceFrom(s, i + 1), sep)
    IN  At(IndexOf(s, sep))

\* parts.join(sep)
RECURSIVE Join(_, _)
Join(parts, sep) ==
    IF parts = <<>> THEN ""
    ELSE IF Len(parts) = 1 THEN parts[1]
    ELSE parts[1] \o sep \o Join(Tail(parts), sep)

WhiteSpace == {" ", "\t", "\n", "\r"}

\* s.trim()
RECURSIVE TrimStart(_)
TrimStart(s) ==
    IF s # "" /\ CharAt(s, 0) \in WhiteSpace THEN TrimStart(SliceFrom(s, 1)) ELSE s

RECURSIVE TrimEnd(_)
TrimEnd(s) ==
    IF s # "" /\ CharAt(s, Len(s) - 1) \in WhiteSpace
    THEN TrimEnd(Slice(s, 0, Len(s) - 1)) ELSE s

Trim(s) == TrimEnd(TrimStart(s))

Digits == "0123456789"
LowerAlpha == "abcdefghijklmnopqrstuvwxyz"
UpperAlpha == "ABCDEFGHIJKLMNOPQRSTUVWXYZ"

IsDigit(c) == Len(c) = 1 /\ Includes(Digits, c)
IsAlpha(c) == Len(c) = 1 /\ (Includes(LowerAlpha, c) \/ Includes(UpperAlpha, c))
IsHex(c) == Len(c) = 1 /\ (Includes("0123456789abcdef", c) \/ Includes("ABCDEF", c))

DigitVal(c) == IndexOf(Digits, c)

\* c.toLowerCase() for one character
LowerChar(c) ==
    IF Len(c) = 1 /\ Includes(UpperAlpha, c)
    THEN CharAt(LowerAlpha, IndexOf(UpperAlpha, c)) ELSE c

\* s.toLowerCase()
RECURSIVE ToLowerCase(_)
ToLowerCase(s) ==
    IF Len(s) <= 1 THEN LowerChar(s)
    ELSE ToLowerCase(SubSeq(s, 1, Len(s) \div 2))
         \o ToLowerCase(SubSeq(s, Len(s) \div 2 + 1, Len(s)))

\* String(n) for an integer
RECURSIVE NatToString(_)
NatToString(n) ==
    IF n < 10 THEN CharAt(Digits, n)
    ELSE NatToString(n \div 10) \o CharAt(Digits, n % 10)

NumToString(n) == IF n < 0 THEN "-" \o NatToString(0 - n) ELSE NatToString(n)

\* the longest all-digit prefix of s
RECURSIVE DigitPrefix(_)
DigitPrefix(s) ==
    IF s # "" /\ IsDigit(CharAt(s, 0))
    THEN CharAt(s, 0) \o DigitPrefix(SliceFrom(s, 1)) ELSE ""

RECURSIVE DigitsValue(_)
DigitsValue(ds) ==
    IF ds = "" THEN 0
    ELSE DigitsValue(Slice(ds, 0, Len(ds) - 1)) * 10 + DigitVal(CharAt(ds, Len(ds) - 1))

\* parseInt(s, 10): leading white space and a sign are skipped, the digits
\* that follow are read, and whatever follows them is ignored; NaN when no
\* digit is read.  The result is [nan, v].
ParseInt(s) ==
    LET Value(neg, ds) ==
            IF ds = "" THEN [nan |-> TRUE, v |-> 0]
            ELSE [nan |-> FALSE, v |-> IF neg THEN 0 - DigitsValue(ds) ELSE DigitsValue(ds)]
        Signed(t) ==
            Value(StartsWith(t, "-"),
                  DigitPrefix(IF StartsWith(t, "-") \/ StartsWith(t, "+")
                              THEN SliceFrom(t, 1) ELSE t))
    IN  Signed(TrimStart(s))

\* an optional number that was never assigned
UnsetNum == [unset |-> TRUE]
IsUnset(n) == "unset" \in DOMAIN n

\* undefined, 0 and NaN are falsy
FalsyNum(n) == IsUnset(n) \/ n.nan \/ n.v = 0

-----------------------------------------------------------------------------
(* new RegExp(pattern, flags) and regex.test(name)                         *)
(*                                                                         *)
(* The patterns the model compiles are built from literal characters, `.`, *)
(* `^`, `$`, `\d`, `\w`, `\s`, escaped punctuation, character classes of   *)
(* literal characters, groups `( )` / `(?: )`, alternation `|` and the     *)
(* quantifiers `*`, `+`, `?` (also lazy).  A pattern RegExp rejects        *)
(* (nothing to repeat, unterminated group or class, unmatched `)`, a       *)
(* trailing `\`) compiles to [ok |-> FALSE]: that is the SyntaxError the   *)
(* source catches.  test() is decided on the set of positions a match can  *)
(* end at, which is the language the pattern denotes.                      *)

RegexFail == [ok |-> FALSE, i |-> 0, node |-> [t |-> "seq", xs |-> <<>>]]

WordChars == LowerAlpha \o UpperAlpha \o Digits \o "_"

\* an atom, then the quantifier that may follow it
Quantified(p, i, atom) ==
    LET Q(q, lazy) ==
            IF q = "*" THEN [ok |-> TRUE, i |-> i + 1 + lazy, node |-> [t |-> "star", x |-> atom]]
            ELSE IF q = "+" THEN [ok |-> TRUE, i |-> i + 1 + lazy, node |-> [t |-> "plus", x |-> atom]]
            ELSE IF q = "?" THEN [ok |-> TRUE, i |-> i + 1 + lazy, node |-> [t |-> "opt", x |-> atom]]
            ELSE [ok |-> TRUE, i |-> i, node |-> atom]
    IN  Q(CharAt(p, i), IF CharAt(p, i + 1) = "?" THEN 1 ELSE 0)

RECURSIVE ParseDisjunction(_, _)
RECURSIVE ParseAlternative(_, _, _)
RECURSIVE ParseMoreAlternatives(_, _, _)

\* one atom starting at position i of pattern p; `quantify` tells whether a
\* quantifier may follow what was read
ParseAtom(p, i) ==
    LET Fail == [ok |-> FALSE, i |-> 0, node |-> [t |-> "seq", xs |-> <<>>], quantify |-> FALSE]
        Atom(j, node) == [ok |-> TRUE, i |-> j, node |-> node, quantify |-> TRUE]
        Group(inner) ==
            IF inner.ok /\ CharAt(p, inner.i) = ")" THEN Atom(inner.i + 1, inner.node) ELSE Fail
        Class(from, close) ==
            IF close = -1 \/ Includes(Slice(p, from, from + close), "\\") THEN Fail
            ELSE Atom(from + close + 1,
                      [t |-> "set", cs |-> Slice(p, from, from + close), neg |-> from = i + 2])
        ClassFrom(from) == Class(from, IndexOf(SliceFrom(p, from), "]"))
        Escape(e) ==
            IF e = "" THEN Fail
            ELSE IF e = "d" THEN Atom(i + 2, [t |-> "set", cs |-> Digits, neg |-> FALSE])
            ELSE IF e = "w" THEN Atom(i + 2, [t |-> "set", cs |-> WordChars, neg |-> FALSE])
            ELSE IF e = "s" THEN Atom(i + 2, [t |-> "set", cs |-> " \t\n\r", neg |-> FALSE])
            ELSE IF Includes(WordChars, e) THEN Fail
            ELSE Atom(i + 2, [t |-> "chr", c |-> e])
        At(c, d) ==
            IF c \in {"*", "+", "?"} THEN Fail
            ELSE IF c = "^" \/ c = "$" THEN
                IF d \in {"*", "+", "?"} THEN Fail
                ELSE [ok |-> TRUE, i |-> i + 1, quantify |-> FALSE,
                      node |-> [t |-> IF c = "^" THEN "bol" ELSE "eol"]]
            ELSE IF c = "(" THEN
                Group(ParseDisjunction(p, IF Slice(p, i + 1, i + 3) = "?:" THEN i + 3 ELSE i + 1))
            ELSE IF c = "[" THEN ClassFrom(IF d = "^" THEN i + 2 ELSE i + 1)
            ELSE IF c = "\\" THEN Escape(d)
            ELSE IF c = "." THEN Atom(i + 1, [t |-> "any"])
            ELSE Atom(i + 1, [t |-> "chr", c |-> c])
    IN  At(CharAt(p, i), CharAt(p, i + 1))

\* one term: an atom and its quantifier
ParseTerm(p, i) ==
    LET Term(a) ==
            IF ~a.ok THEN RegexFail
            ELSE IF a.quantify THEN Quantified(p, a.i, a.node)
            ELSE [ok |-> TRUE, i |-> a.i, node |-> a.node]
    IN  Term(ParseAtom(p, i))

\* the terms up to the next `|`, `)` or the end of the pattern
ParseAlternative(p, i, acc) ==
    LET After(term) ==
            IF term.ok THEN ParseAlternative(p, term.i, Append(acc, term.node)) ELSE RegexFail
    IN  IF i >= Len(p) \/ CharAt(p, i) \in {"|", ")"}
        THEN [ok |-> TRUE, i |-> i, node |-> [t |-> "seq", xs |-> acc]]
        ELSE After(ParseTerm(p, i))

ParseMoreAlternatives(p, i, acc) ==
    LET After(next) ==
            IF next.ok THEN ParseMoreAlternatives(p, next.i, Append(acc, next.node))
            ELSE RegexFail
    IN  IF CharAt(p, i) = "|" THEN After(ParseAlternative(p, i + 1, <<>>))
        ELSE [ok |-> TRUE, i |-> i, node |-> [t |-> "alt", xs |-> acc]]

ParseDisjunction(p, i) ==
    LET After(first) ==
            IF first.ok THEN ParseMoreAlternatives(p, first.i, <<first.node>>) ELSE RegexFail
    IN  After(ParseAlternative(p, i, <<>>))

\* new RegExp(pattern): [ok |-> FALSE] stands for the SyntaxError
RegExpCompile(pattern) ==
    LET Whole(r) == IF r.ok /\ r.i = Len(pattern) THEN r ELSE RegexFail
    IN  Whole(ParseDisjunction(pattern, 0))

SameChar(a, b, ignoreCase) ==
    IF ignoreCase THEN LowerChar(a) = LowerChar(b) ELSE a = b

InSet(c, cs, ignoreCase) ==
    \E k \in 0..(Len(cs) - 1) : SameChar(c, CharAt(cs, k), ignoreCase)

RECURSIVE MatchEnds(_, _, _, _)
RECURSIVE MatchSeq(_, _, _, _)
RECURSIVE MatchStar(_, _, _, _)

\* the positions a match of node can end at when it starts at a position of S
MatchEnds(node, s, S, ic) ==
    IF node.t = "chr" THEN {i + 1 : i \in {j \in S : j < Len(s) /\ SameChar(CharAt(s, j), node.c, ic)}}
    ELSE IF node.t = "any" THEN {i + 1 : i \in {j \in S : j < Len(s)}}
    ELSE IF node.t = "set"
        THEN {i + 1 : i \in {j \in S : j < Len(s) /\ (InSet(CharAt(s, j), node.cs, ic) # node.neg)}}
    ELSE IF node.t = "bol" THEN S \cap {0}
    ELSE IF node.t = "eol" THEN S \cap {Len(s)}
    ELSE IF node.t = "seq" THEN MatchSeq(node.xs, s, S, ic)
    ELSE IF node.t = "alt" THEN UNION {MatchEnds(node.xs[k], s, S, ic) : k \in 1..Len(node.xs)}
    ELSE IF node.t = "opt" THEN S \cup MatchEnds(node.x, s, S, ic)
    ELSE IF node.t = "star" THEN MatchStar(node.x, s, S, ic)
    ELSE MatchStar(node.x, s, MatchEnds(node.x, s, S, ic), ic)

MatchSeq(xs, s, S, ic) ==
    IF xs = <<>> \/ S = {} THEN S
    ELSE MatchSeq(Tail(xs), s, MatchEnds(Head(xs), s, S, ic), ic)

MatchStar(x, s, S, ic) ==
    LET Grow(more) == IF more = S THEN S ELSE MatchStar(x, s, more, ic)
    IN  Grow(S \cup MatchEnds(x, s, S, ic))

\* regex.test(s) for a compiled pattern (no `g` flag: the search is unanchored)
RegExpTest(regex, s, ignoreCase) ==
    MatchEnds(regex.node, s, 0..Len(s), ignoreCase) # {}

-----------------------------------------------------------------------------
(* Character codes, Base64 and percent-encoding (utils)                    *)
(*                                                                         *)
(* Strings hold the characters U+0020..U+007E except the backquote, plus   *)
(* tab, line feed and carriage return.  A decoded byte outside that range  *)
(* (a control character, a byte of a multi-byte sequence) is written as    *)
(* the form feed, which no parser treats specially.  The operators that    *)
(* map a string character by character halve it, so that a long string     *)
(* costs little depth.                                                     *)

Replacement == "\f"

\* the characters of codes 32..126 in order; the form feed holds the place of
\* the backquote
Ascii ==
    " !\"#$%&'()*+,-./0123456789:;<=>?@ABCDEFGHIJKLMNOPQRSTUVWXYZ[\\]^_\fabcdefghijklmnopqrstuvwxyz{|}~"

\* c.charCodeAt(0)
CharCode(c) ==
    IF c = "\t" THEN 9 ELSE IF c = "\n" THEN 10 ELSE IF c = "\r" THEN 13
    ELSE IF c = Replacement THEN 12 ELSE 32 + IndexOf(Ascii, c)

\* String.fromCharCode(b) for one byte
FromCharCode(b) ==
    IF b >= 32 /\ b <= 126 /\ b # 96 THEN SubSeq(Ascii, b - 31, b - 31)
    ELSE IF b = 9 THEN "\t" ELSE IF b = 10 THEN "\n" ELSE IF b = 13 THEN "\r"
    ELSE Replacement

Base64Alphabet == "ABCDEFGHIJKLMNOPQRSTUVWXYZabcdefghijklmnopqrstuvwxyz0123456789+/"

\* s.split(t).join(r) / s.replace(/t/g, r) for a one-character t
RECURSIVE ReplaceAll(_, _, _)
ReplaceAll(s, t, r) ==
    IF Len(s) <= 1 THEN (IF s = t THEN r ELSE s)
    ELSE ReplaceAll(SubSeq(s, 1, Len(s) \div 2), t, r)
         \o ReplaceAll(SubSeq(s, Len(s) \div 2 + 1, Len(s)), t, r)

\* Buffer.from(str, 'utf-8').toString('base64')
RECURSIVE base64Encode(_)
base64Encode(str) ==
    LET Sextet(n) == SubSeq(Base64Alphabet, n + 1, n + 1)
        Quad(a, b, c) ==
            Sextet(a \div 4)
            \o Sextet((a % 4) * 16 + b \div 16)
            \o (IF Len(str) < 2 THEN "=" ELSE Sextet((b % 16) * 4 + c \div 64))
            \o (IF Len(str) < 3 THEN "=" ELSE Sextet(c % 64))
        Code(i) == IF i <= Len(str) THEN CharCode(SubSeq(str, i, i)) ELSE 0
        Halves(h) == base64Encode(SubSeq(str, 1, h)) \o base64Encode(SubSeq(str, h + 1, Len(str)))
    IN  IF str = "" THEN ""
        ELSE IF Len(str) <= 3 THEN Quad(Code(1), Code(2), Code(3))
        ELSE Halves(3 * ((Len(str) \div 3 + 1) \div 2))

\* the characters of s that occur in allowed
RECURSIVE KeepChars(_, _)
KeepChars(s, allowed) ==
    IF Len(s) <= 1 THEN (IF Includes(allowed, s) THEN s ELSE "")
    ELSE KeepChars(SubSeq(s, 1, Len(s) \div 2), allowed)
         \o KeepChars(SubSeq(s, Len(s) \div 2 + 1, Len(s)), allowed)

\* the characters Buffer.from(base64, 'base64') reads: those outside the
\* alphabet are skipped and the first `=` ends the input
Sextets(base64) ==
    LET Until(end) == IF end = -1 THEN base64 ELSE SubSeq(base64, 1, end)
    IN  KeepChars(Until(IndexOf(base64, "=")), Base64Alphabet)

\* the bytes of a run of sextets, as a string; an incomplete last byte is dropped
RECURSIVE SextetsToString(_)
SextetsToString(xs) ==
    LET X(j) == IF j <= Len(xs) THEN IndexOf(Base64Alphabet, SubSeq(xs, j, j)) ELSE 0
        Bytes(a, b, c, d) ==
            FromCharCode(a * 4 + b \div 16)
            \o (IF Len(xs) < 3 THEN ""
                ELSE FromCharCode((b % 16) * 16 + c \div 4)
                     \o (IF Len(xs) < 4 THEN "" ELSE FromCharCode((c % 4) * 64 + d)))
        Halves(h) ==
            SextetsToString(SubSeq(xs, 1, h)) \o SextetsToString(SubSeq(xs, h + 1, Len(xs)))
    IN  IF Len(xs) < 2 THEN ""
        ELSE IF Len(xs) <= 4 THEN Bytes(X(1), X(2), X(3), X(4))
        ELSE Halves(4 * ((Len(xs) \div 4 + 1) \div 2))

\* base64Decode: never throws under Node (Buffer ignores what it cannot read)
base64Decode(str) ==
    SextetsToString(Sextets(ReplaceAll(ReplaceAll(str, "-", "+"), "_", "/")))

\* urlSafeBase64Encode
RECURSIVE StripPadding(_)
StripPadding(s) == IF EndsWith(s, "=") THEN StripPadding(Slice(s, 0, Len(s) - 1)) ELSE s

urlSafeBase64Encode(str) ==
    StripPadding(ReplaceAll(ReplaceAll(base64Encode(str), "+", "-"), "/", "_"))

\* urlSafeBase64Decode
urlSafeBase64Decode(str) == base64Decode(str)

\* isBase64: /^[A-Za-z0-9+/\-_]*={0,2}$/ on a non-empty string
isBase64(str) ==
    LET Body(body) ==
            /\ Len(str) - Len(body) <= 2
            /\ KeepChars(body, Base64Alphabet \o "-_") = body
    IN  str # "" /\ Body(StripPadding(str))

HexDigits == "0123456789ABCDEF"
HexChars == "0123456789abcdef0123456789ABCDEF"
Unreserved == "ABCDEFGHIJKLMNOPQRSTUVWXYZabcdefghijklmnopqrstuvwxyz0123456789-_.!~*'()"

\* encodeURIComponent
RECURSIVE urlEncode(_)
urlEncode(str) ==
    LET Escape(code) ==
            "%" \o SubSeq(HexDigits, code \div 16 + 1, code \div 16 + 1)
                \o SubSeq(HexDigits, (code % 16) + 1, (code % 16) + 1)
    IN  IF str = "" THEN ""
        ELSE IF Len(str) = 1
        THEN (IF Includes(Unreserved, str) THEN str ELSE Escape(CharCode(str)))
        ELSE urlEncode(SubSeq(str, 1, Len(str) \div 2))
             \o urlEncode(SubSeq(str, Len(str) \div 2 + 1, Len(str)))

HexVal(c) == IndexOf(HexChars, c) % 16

\* what positions lo..hi of str decode to, every % of str starting an escape
RECURSIVE DecodeRange(_, _, _)
DecodeRange(str, lo, hi) ==
    IF lo > hi THEN ""
    ELSE IF lo < hi
    THEN DecodeRange(str, lo, (lo + hi) \div 2) \o DecodeRange(str, (lo + hi) \div 2 + 1, hi)
    ELSE IF SubSeq(str, lo, lo) = "%"
    THEN FromCharCode(HexVal(SubSeq(str, lo + 1, lo + 1)) * 16
                      + HexVal(SubSeq(str, lo + 2, lo + 2)))
    ELSE IF (lo > 1 /\ SubSeq(str, lo - 1, lo - 1) = "%")
            \/ (lo > 2 /\ SubSeq(str, lo - 2, lo - 2) = "%")
    THEN ""
    ELSE SubSeq(str, lo, lo)

\* decodeURIComponent: [ok |-> FALSE] is the URIError raised for a % that is
\* not followed by two hex digits, or for an escaped byte above 0x7F that
\* starts no UTF-8 sequence the model's strings can hold.  The two characters
\* after a % are hex digits or the call throws, so every % starts an escape.
decodeURIComponent(str) ==
    LET Escape(h, l) == Len(h) = 1 /\ Len(l) = 1 /\ Includes(HexChars, h)
                        /\ Includes(HexChars, l) /\ HexVal(h) < 8
    IN  IF \A i \in Occurrences(str, "%") : Escape(CharAt(str, i + 1), CharAt(str, i + 2))
        THEN [ok |-> TRUE, s |-> DecodeRange(str, 1, Len(str))]
        ELSE [ok |-> FALSE, s |-> ""]

\* urlDecode: decodeURIComponent, or the string itself when that throws
urlDecode(str) ==
    LET Try(r) == IF r.ok THEN r.s ELSE str
    IN  Try(decodeURIComponent(str))

\* a thrown exception, as the value of the expression that raised it
Thrown == [thrown |-> TRUE]
IsThrown(x) == "thrown" \in DOMAIN x

\* parseQueryString: [ok, params], params being the list of <<key, value>>
\* assignments in order; ok is FALSE when decodeURIComponent throws
RECURSIVE QueryParts(_)
QueryParts(parts) ==
    LET Put(key, value, rest) ==
            IF ~rest.ok \/ ~key.ok \/ ~value.ok THEN [ok |-> FALSE, params |-> <<>>]
            ELSE [ok |-> TRUE, params |-> <<<<key.s, value.s>>>> \o rest.params]
        Assign(kv, rest) ==
            IF kv[1] = "" THEN rest
            ELSE Put(decodeURIComponent(kv[1]),
                     decodeURIComponent(IF Len(kv) >= 2 THEN kv[2] ELSE ""),
                     rest)
    IN  IF parts = <<>> THEN [ok |-> TRUE, params |-> <<>>]
        ELSE Assign(Split(Head(parts), "="), QueryParts(Tail(parts)))

NoParams == [ok |-> TRUE, params |-> <<>>]

parseQueryString(query) ==
    IF query = "" THEN NoParams
    ELSE QueryParts(Split(IF StartsWith(query, "?") THEN SliceFrom(query, 1) ELSE query, "&"))

\* params[key], '' when the key was never assigned (every use in the parsers
\* treats undefined and '' alike)
Param(params, key) ==
    LET Last(is) == IF is = {} THEN "" ELSE params[CHOOSE i \in is : \A j \in is : i >= j][2]
    IN  Last({i \in 1..Len(params) : params[i][1] = key})

-----------------------------------------------------------------------------
(* The patterns the link parsers match with String.prototype.match         *)
(*                                                                         *)
(* Each of these patterns is a sequence of capture groups -- (.+), (.+?)   *)
(* or (\d+) -- every one followed by one literal character, the last by    *)
(* the end of the input.  A pattern is written as the list of its groups,  *)
(* [kind, sep]; the matcher tries the lengths of a group in the order the  *)
(* backtracking engine does (longest first, shortest first for a lazy      *)
(* group) and keeps the first for which the rest of the pattern matches.   *)

MatchFail == [ok |-> FALSE, groups |-> <<>>]

RECURSIVE MatchGroups(_, _)
MatchGroups(pattern, s) ==
    LET kind == pattern[1].kind
        sep  == pattern[1].sep
        Rest(k) == MatchGroups(Tail(pattern), SliceFrom(s, k + Len(sep)))
        Fits(k) ==
            /\ \A i \in 0..(k - 1) :
                   IF kind = "digits" THEN IsDigit(CharAt(s, i))
                   ELSE CharAt(s, i) \notin {"\n", "\r"}
            /\ IF sep = "" THEN k = Len(s) ELSE CharAt(s, k) = sep
            /\ Rest(k).ok
        Cut(k) == [ok |-> TRUE, groups |-> <<Slice(s, 0, k)>> \o Rest(k).groups]
        First(ks) ==
            IF ks = {} THEN MatchFail
            ELSE Cut(CHOOSE k \in ks : \A j \in ks : IF kind = "lazy" THEN k <= j ELSE k >= j)
    IN  IF pattern = <<>> THEN [ok |-> s = "", groups |-> <<>>]
        ELSE First({k \in 1..Len(s) : Fits(k)})

\* /^(.+)@(.+):(\d+)$/
AuthHostPortPattern ==
    <<[kind |-> "greedy", sep |-> "@"], [kind |-> "greedy", sep |-> ":"],
      [kind |-> "digits", sep |-> ""]>>

\* /^(.+):(\d+)$/
HostPortPattern == <<[kind |-> "greedy", sep |-> ":"], [kind |-> "digits", sep |-> ""]>>

\* /^(.+?):(.+)@(.+):(\d+)$/
MethodAuthHostPortPattern ==
    <<[kind |-> "lazy", sep |-> ":"], [kind |-> "greedy", sep |-> "@"],
      [kind |-> "greedy", sep |-> ":"], [kind |-> "digits", sep |-> ""]>>

\* /^(.+):(\d+):(.+?):(.+?):(.+?):(.+)$/
SsrPattern ==
    <<[kind |-> "greedy", sep |-> ":"], [kind |-> "digits", sep |-> ":"],
      [kind |-> "lazy", sep |-> ":"], [kind |-> "lazy", sep |-> ":"],
      [kind |-> "lazy", sep |-> ":"], [kind |-> "greedy", sep |-> ""]>>

-----------------------------------------------------------------------------
(* Proxy records (types/proxy.ts)                                          *)
(*                                                                         *)
(* A record carries every field the parsers set; an optional field left    *)
(* unset holds Undefined.  Numbers are the [nan, v] values of ParseInt,    *)
(* booleans the strings "true" and "false".                                *)

Num(v) == [nan |-> FALSE, v |-> v]

ProxyDefaults ==
    [type |-> "unknown", remark |-> "", hostname |-> "", port |-> Num(0),
     group |-> Undefined, password |-> Undefined, encryptMethod |-> Undefined,
     plugin |-> Undefined, pluginOption |-> Undefined, protocol |-> Undefined,
     protocolParam |-> Undefined, obfs |-> Undefined, obfsParam |-> Undefined,
     userId |-> Undefined, alterId |-> UnsetNum, transferProtocol |-> Undefined,
     fakeType |-> Undefined, host |-> Undefined, path |-> Undefined,
     tlsSecure |-> Undefined, serverName |-> Undefined, tcpFastOpen |-> Undefined,
     allowInsecure |-> Undefined, ports |-> Undefined, up |-> Undefined,
     down |-> Undefined, obfsPassword |-> Undefined, sni |-> Undefined,
     fingerprint |-> Undefined, alpn |-> Undefined, udp |-> Undefined]

\* createProxy: { type: Unknown, remark: '', hostname: '', port: 0, ...partial }
createProxy(partial) == partial @@ ProxyDefaults

\* `x || undefined`
OrUndefined(x) == IF x = "" THEN Undefined ELSE x

\* `x || d`
OrElse(x, d) == IF x = "" \/ x = Undefined THEN d ELSE x

\* `flag || undefined` for a boolean
TrueOrUndefined(flag) == IF flag THEN "true" ELSE Undefined

\* the port test every link parser ends with, without its upper bound
BadPortUpTo(port) == port.nan \/ port.v = 0 \/ port.v <= 0

\* !port || port <= 0 || port > 65535
BadPort(port) == port.nan \/ port.v = 0 \/ port.v <= 0 \/ port.v > 65535

\* remark || `${server}:${port}`
RemarkOr(remark, server, port) ==
    IF remark = "" THEN server \o ":" \o NumToString(port.v) ELSE remark

\* a parser's try block whose catch clause is missing
Rethrow(result) == result

\* try { ... } catch { return null; }
Catch(result) == IF IsThrown(result) THEN Null ELSE result

-----------------------------------------------------------------------------
(* parseSS (ss.ts)                                                         *)

parseSS(uri) ==
    LET NoMatch == [ok |-> FALSE]
        Build(o, server, port, method, password) ==
            IF server = "" \/ BadPort(port) THEN Null
            ELSE createProxy(
                     [type |-> "ss", remark |-> RemarkOr(o.remark, server, port),
                      hostname |-> server, port |-> port, password |-> password,
                      encryptMethod |-> method, plugin |-> OrUndefined(o.plugin),
                      pluginOption |-> OrUndefined(o.pluginOpts), group |-> o.grp])
        Fields(o, m) ==
            IF ~m.ok THEN Null
            ELSE Build(o, m.server, ParseInt(m.port), m.method, m.password)
        \* legacy: ss://BASE64(method:password@server:port)
        Legacy(match) ==
            IF ~match.ok THEN NoMatch
            ELSE [ok |-> TRUE, server |-> match.groups[3], port |-> match.groups[4],
                  method |-> match.groups[1], password |-> match.groups[2]]
        \* SIP002: ss://BASE64(method:password)@server:port
        Sip002(serverInfo, decoded, colonIndex, methodColonIndex) ==
            IF colonIndex = -1 \/ methodColonIndex = -1 THEN NoMatch
            ELSE [ok |-> TRUE, server |-> Slice(serverInfo, 0, colonIndex),
                  port |-> SliceFrom(serverInfo, colonIndex + 1),
                  method |-> Slice(decoded, 0, methodColonIndex),
                  password |-> SliceFrom(decoded, methodColonIndex + 1)]
        Form(ss, atIndex, decoded) ==
            IF atIndex # -1
            THEN Sip002(SliceFrom(ss, atIndex + 1), decoded,
                        LastIndexOf(SliceFrom(ss, atIndex + 1), ":"), IndexOf(decoded, ":"))
            ELSE Legacy(MatchGroups(MethodAuthHostPortPattern, decoded))
        Body(ss, o, atIndex) ==
            Fields(o, Form(ss, atIndex,
                           urlSafeBase64Decode(IF atIndex # -1 THEN Slice(ss, 0, atIndex)
                                               ELSE ss)))
        Plugin(ss, remark, pluginStr, semicolonIndex, groupParam) ==
            Body(ss,
                 [remark |-> remark,
                  plugin |-> IF semicolonIndex # -1 THEN Slice(pluginStr, 0, semicolonIndex)
                             ELSE pluginStr,
                  pluginOpts |-> IF semicolonIndex # -1
                                 THEN SliceFrom(pluginStr, semicolonIndex + 1) ELSE "",
                  grp |-> IF groupParam # "" THEN urlSafeBase64Decode(groupParam)
                          ELSE "SSProvider"],
                 LastIndexOf(ss, "@"))
        Decoded(ss, remark, pluginStr, groupParam) ==
            Plugin(ss, remark, pluginStr, IndexOf(pluginStr, ";"), groupParam)
        Params(ss, remark, q) ==
            IF ~q.ok THEN Thrown
            ELSE Decoded(ss, remark, urlDecode(Param(q.params, "plugin")),
                         Param(q.params, "group"))
        Query(ss, remark, queryIndex) ==
            Params(IF queryIndex # -1 THEN Slice(ss, 0, queryIndex) ELSE ss, remark,
                   IF queryIndex # -1 THEN parseQueryString(SliceFrom(ss, queryIndex + 1))
                   ELSE NoParams)
        Named(ss, remark) == Query(ss, remark, IndexOf(ss, "?"))
        Fragment(ss, hashIndex) ==
            Named(IF hashIndex # -1 THEN Slice(ss, 0, hashIndex) ELSE ss,
                  IF hashIndex # -1 THEN urlDecode(SliceFrom(ss, hashIndex + 1)) ELSE "")
        Try(ss) == Fragment(ss, IndexOf(ss, "#"))
    IN  IF ~StartsWith(uri, "ss://") THEN Null
        ELSE Catch(Try(ReplaceFirst(SliceFrom(uri, 5), "/?", "?")))

-----------------------------------------------------------------------------
(* parseSSR (ssr.ts)                                                       *)

SS_CIPHERS ==
    {"rc4-md5", "aes-128-gcm", "aes-192-gcm", "aes-256-gcm",
     "aes-128-cfb", "aes-192-cfb", "aes-256-cfb",
     "aes-128-ctr", "aes-192-ctr", "aes-256-ctr",
     "camellia-128-cfb", "camellia-192-cfb", "camellia-256-cfb",
     "bf-cfb", "chacha20-ietf-poly1305", "xchacha20-ietf-poly1305",
     "salsa20", "chacha20", "chacha20-ietf",
     "2022-blake3-aes-128-gcm", "2022-blake3-aes-256-gcm",
     "2022-blake3-chacha20-poly1305"}

\* s.replace(/\s/g, '')
RemoveSpace(s) == KeepChars(s, SubSeq(Ascii, 2, Len(Ascii)))

\* isPlainSS without the test of obfs
isPlainSSAnyObfs(method, obfs, protocol) ==
    method \in SS_CIPHERS /\ (protocol = "" \/ protocol = "origin")

\* isPlainSS
isPlainSS(method, obfs, protocol) ==
    /\ method \in SS_CIPHERS
    /\ (obfs = "" \/ obfs = "plain")
    /\ (protocol = "" \/ protocol = "origin")

parseSSR(uri) ==
    LET Build(server, port, protocol, method, obfs, password, o) ==
            IF server = "" \/ BadPort(port) THEN Null
            ELSE createProxy(
                     IF isPlainSS(method, obfs, protocol)
                     THEN [type |-> "ss", remark |-> RemarkOr(o.remarks, server, port),
                           hostname |-> server, port |-> port, password |-> password,
                           encryptMethod |-> method, group |-> OrElse(o.grp, "SSRProvider")]
                     ELSE [type |-> "ssr", remark |-> RemarkOr(o.remarks, server, port),
                           hostname |-> server, port |-> port, password |-> password,
                           encryptMethod |-> method, protocol |-> protocol,
                           protocolParam |-> OrUndefined(o.protoParam), obfs |-> obfs,
                           obfsParam |-> OrUndefined(o.obfsParam),
                           group |-> OrElse(o.grp, "SSRProvider")])
        Main(match, o) ==
            IF ~match.ok THEN Null
            ELSE Build(match.groups[1], ParseInt(match.groups[2]), match.groups[3],
                       match.groups[4], match.groups[5],
                       urlSafeBase64Decode(match.groups[6]), o)
        Decoded(params, key) ==
            IF Param(params, key) # "" THEN urlSafeBase64Decode(Param(params, key)) ELSE ""
        Params(ssr, q) ==
            IF ~q.ok THEN Thrown
            ELSE Main(MatchGroups(SsrPattern, ssr),
                      [remarks |-> Decoded(q.params, "remarks"),
                       grp |-> OrElse(Decoded(q.params, "group"), "SSRProvider"),
                       obfsParam |-> RemoveSpace(Decoded(q.params, "obfsparam")),
                       protoParam |-> RemoveSpace(Decoded(q.params, "protoparam"))])
        Query(ssr, queryIndex) ==
            Params(IF queryIndex # -1 THEN Slice(ssr, 0, queryIndex) ELSE ssr,
                   IF queryIndex # -1 THEN parseQueryString(SliceFrom(ssr, queryIndex + 2))
                   ELSE NoParams)
        Try(ssr) == Query(ssr, IndexOf(ssr, "/?"))
    IN  IF ~StartsWith(uri, "ssr://") THEN Null
        ELSE Catch(Try(urlSafeBase64Decode(ReplaceAll(SliceFrom(uri, 6), "\r", ""))))

-----------------------------------------------------------------------------
(* parseTrojan (trojan.ts) and parseHysteria2 (hysteria2.ts)               *)

parseTrojan(uri) ==
    LET Path(path) == IF StartsWith(path, "%2F") THEN urlDecode(path) ELSE path
        Build(password, server, port, p, remark) ==
            IF server = "" \/ BadPort(port) THEN Null
            ELSE createProxy(
                     [type |-> "trojan", remark |-> RemarkOr(remark, server, port),
                      hostname |-> server, port |-> port, password |-> password,
                      transferProtocol |->
                          IF p.ws = "1" \/ p.type = "ws" THEN "ws" ELSE "tcp",
                      host |-> OrUndefined(OrElse(p.sni, p.peer)),
                      path |-> OrUndefined(IF p.ws = "1" THEN p.wspath
                                           ELSE IF p.type = "ws" THEN Path(p.path) ELSE ""),
                      tlsSecure |-> "true",
                      tcpFastOpen |-> TrueOrUndefined(p.tfo \in {"1", "true"}),
                      allowInsecure |-> TrueOrUndefined(p.allowInsecure \in {"1", "true"}),
                      group |-> IF p.grp # "" THEN urlDecode(p.grp) ELSE "TrojanProvider"])
        Main(match, p, remark) ==
            IF ~match.ok THEN Null
            ELSE Build(match.groups[1], match.groups[2], ParseInt(match.groups[3]), p, remark)
        Params(trojan, q, remark) ==
            IF ~q.ok THEN Thrown
            ELSE Main(MatchGroups(AuthHostPortPattern, trojan),
                      [k \in {"ws", "type", "sni", "peer", "wspath", "path", "tfo",
                              "allowInsecure"} |-> Param(q.params, k)]
                      @@ [grp |-> Param(q.params, "group")],
                      remark)
        Query(trojan, remark, queryIndex) ==
            Params(IF queryIndex # -1 THEN Slice(trojan, 0, queryIndex) ELSE trojan,
                   IF queryIndex # -1 THEN parseQueryString(SliceFrom(trojan, queryIndex + 1))
                   ELSE NoParams,
                   remark)
        Named(trojan, remark) == Query(trojan, remark, IndexOf(trojan, "?"))
        Fragment(trojan, hashIndex) ==
            Named(IF hashIndex # -1 THEN Slice(trojan, 0, hashIndex) ELSE trojan,
                  IF hashIndex # -1 THEN urlDecode(SliceFrom(trojan, hashIndex + 1)) ELSE "")
        Try(trojan) == Fragment(trojan, LastIndexOf(trojan, "#"))
    IN  IF ~StartsWith(uri, "trojan://") THEN Null
        ELSE Catch(Try(SliceFrom(uri, 9)))

parseHysteria2(uri) ==
    LET NoMatch == [ok |-> FALSE]
        Build(password, server, port, p, remark) ==
            IF server = "" \/ BadPort(port) THEN Null
            ELSE createProxy(
                     [type |-> "hysteria2", remark |-> RemarkOr(remark, server, port),
                      hostname |-> server, port |-> port, password |-> password,
                      ports |-> NumToString(port.v),
                      up |-> OrUndefined(p.up), down |-> OrUndefined(p.down),
                      obfs |-> OrUndefined(p.obfs),
                      obfsPassword |-> OrUndefined(p["obfs-password"]),
                      sni |-> OrUndefined(p.sni), fingerprint |-> OrUndefined(p.pinSHA256),
                      alpn |-> OrUndefined(p.alpn),
                      allowInsecure |-> TrueOrUndefined(p.insecure \in {"1", "true"}),
                      group |-> "Hysteria2Provider"])
        Fields(m, p, remark) ==
            IF ~m.ok THEN Null
            ELSE Build(m.password, m.server, ParseInt(m.port), p, remark)
        \* hysteria2://auth@server:port
        WithAuth(match) ==
            IF ~match.ok THEN NoMatch
            ELSE [ok |-> TRUE, password |-> match.groups[1], server |-> match.groups[2],
                  port |-> match.groups[3]]
        \* hysteria2://server:port?password=...
        NoAuth(match, password) ==
            IF password = "" \/ ~match.ok THEN NoMatch
            ELSE [ok |-> TRUE, password |-> password, server |-> match.groups[1],
                  port |-> match.groups[2]]
        Form(hysteria2, p, match) ==
            IF Includes(hysteria2, "@") THEN WithAuth(match) ELSE NoAuth(match, p.password)
        Main(hysteria2, p, remark) ==
            Fields(Form(hysteria2, p,
                        MatchGroups(IF Includes(hysteria2, "@") THEN AuthHostPortPattern
                                    ELSE HostPortPattern, hysteria2)),
                   p, remark)
        Params(hysteria2, q, remark) ==
            IF ~q.ok THEN Thrown
            ELSE Main(hysteria2,
                      [k \in {"password", "up", "down", "obfs", "obfs-password", "sni",
                              "pinSHA256", "alpn", "insecure"} |-> Param(q.params, k)],
                      remark)
        Query(hysteria2, remark, queryIndex) ==
            Params(IF queryIndex # -1 THEN Slice(hysteria2, 0, queryIndex) ELSE hysteria2,
                   IF queryIndex # -1
                   THEN parseQueryString(SliceFrom(hysteria2, queryIndex + 1)) ELSE NoParams,
                   remark)
        Named(hysteria2, remark) == Query(hysteria2, remark, IndexOf(hysteria2, "?"))
        Fragment(hysteria2, hashIndex) ==
            Named(IF hashIndex # -1 THEN Slice(hysteria2, 0, hashIndex) ELSE hysteria2,
                  IF hashIndex # -1 THEN urlDecode(SliceFrom(hysteria2, hashIndex + 1))
                  ELSE "")
        Try(hysteria2) == Fragment(hysteria2, LastIndexOf(hysteria2, "#"))
        Normalized(hysteria2) ==
            IF ~StartsWith(hysteria2, "hysteria2://") THEN Null
            ELSE Catch(Try(SliceFrom(hysteria2, 12)))
    IN  Normalized(ReplaceFirst(
            IF StartsWith(uri, "hy2://") THEN "hysteria2://" \o SliceFrom(uri, 6) ELSE uri,
            "/?", "?"))

-----------------------------------------------------------------------------
(* JSON.parse and JSON.stringify, as far as a VMess link needs them         *)
(*                                                                         *)
(* The text read is the literal null or one object whose values are        *)
(* strings, integers and the literals true, false and null; any other text *)
(* is read as a syntax error.  (A VMess body that is another JSON value    *)
(* has no `add` and is rejected like a syntax error is.)  A value is       *)
(* [kind, text].                                                           *)

JsonUndefined == [kind |-> "undefined", text |-> ""]
JsonFail == [ok |-> FALSE, kind |-> "error", fields |-> <<>>]

\* the number of backslashes that end just before position j (from 0)
BackslashRun(s, j) ==
    CHOOSE n \in 0..j : CharAt(s, j - n - 1) # "\\" /\ \A m \in 1..n : CharAt(s, j - m) = "\\"

\* s starts with a quote: the position of the quote that closes it, or -1
JsonStringEnd(s) ==
    LET First(js) == IF js = {} THEN -1 ELSE CHOOSE j \in js : \A k \in js : j <= k
    IN  First({j \in Occurrences(s, "\"") : j > 0 /\ BackslashRun(s, j) % 2 = 0})

\* what positions lo..hi (from 0) of the inside of a string literal denote
RECURSIVE JsonUnescape(_, _, _)
JsonUnescape(raw, lo, hi) ==
    LET Escaped(c) ==
            IF c = "n" THEN "\n" ELSE IF c = "t" THEN "\t" ELSE IF c = "r" THEN "\r"
            ELSE IF c = "f" THEN "\f" ELSE c
        At(c, run) ==
            IF run % 2 = 1 THEN Escaped(c) ELSE IF c = "\\" THEN "" ELSE c
    IN  IF lo > hi THEN ""
        ELSE IF lo < hi
        THEN JsonUnescape(raw, lo, (lo + hi) \div 2)
             \o JsonUnescape(raw, (lo + hi) \div 2 + 1, hi)
        ELSE At(SubSeq(raw, lo + 1, lo + 1), BackslashRun(raw, lo))

\* the string a JSON string literal denotes, given what is between its quotes
JsonString(raw) ==
    IF /\ \A c \in {"\n", "\t", "\r", "\f"} : ~Includes(raw, c)
       /\ \A i \in Occurrences(raw, "\\") :
              BackslashRun(raw, i) % 2 = 0
              => CharAt(raw, i + 1) \in {"\"", "\\", "/", "n", "t", "r", "f"}
    THEN [ok |-> TRUE, v |-> [kind |-> "string", text |-> JsonUnescape(raw, 0, Len(raw) - 1)]]
    ELSE [ok |-> FALSE, v |-> JsonUndefined]

\* an integer or a literal
JsonScalar(token) ==
    LET Unsigned(t) ==
            /\ t # ""
            /\ KeepChars(t, Digits) = t
            /\ (Len(t) > 1 => SubSeq(t, 1, 1) # "0")
    IN  IF token \in {"true", "false", "null"}
        THEN [ok |-> TRUE, v |-> [kind |-> "literal", text |-> token]]
        ELSE IF Unsigned(IF StartsWith(token, "-") THEN SliceFrom(token, 1) ELSE token)
        THEN [ok |-> TRUE, v |-> [kind |-> "number", text |-> token]]
        ELSE [ok |-> FALSE, v |-> JsonUndefined]

\* the members of an object, s starting at the first key
RECURSIVE JsonMembers(_, _)
JsonMembers(s, fields) ==
    LET After(rest, key, value) ==
            IF ~value.ok THEN JsonFail
            ELSE IF StartsWith(rest, ",")
            THEN JsonMembers(TrimStart(SliceFrom(rest, 1)), Append(fields, <<key, value.v>>))
            ELSE IF TrimEnd(rest) = "}"
            THEN [ok |-> TRUE, kind |-> "object", fields |-> Append(fields, <<key, value.v>>)]
            ELSE JsonFail
        \* a string ends at its closing quote, another value before the next , or }
        Value(key, rest, quoted, end) ==
            IF end = -1 THEN JsonFail
            ELSE After(TrimStart(SliceFrom(rest, IF quoted THEN end + 1 ELSE end)), key,
                       IF quoted THEN JsonString(Slice(rest, 1, end))
                       ELSE JsonScalar(TrimEnd(Slice(rest, 0, end))))
        ScalarEnd(comma, brace) ==
            IF comma = -1 \/ (brace # -1 /\ brace < comma) THEN brace ELSE comma
        Colon(key, rest) ==
            IF ~key.ok \/ rest = "" THEN JsonFail
            ELSE Value(key.v.text, rest, StartsWith(rest, "\""),
                       IF StartsWith(rest, "\"") THEN JsonStringEnd(rest)
                       ELSE ScalarEnd(IndexOf(rest, ","), IndexOf(rest, "}")))
        Key(end, rest) ==
            IF end = -1 \/ ~StartsWith(rest, ":") THEN JsonFail
            ELSE Colon(JsonString(Slice(s, 1, end)), TrimStart(SliceFrom(rest, 1)))
        Quoted(end) == Key(end, TrimStart(SliceFrom(s, end + 1)))
    IN  IF ~StartsWith(s, "\"") THEN JsonFail ELSE Quoted(JsonStringEnd(s))

\* JSON.parse: [ok, kind, fields]; ok is FALSE for the SyntaxError
JSONParse(text) ==
    LET Object(inner) ==
            IF inner = "}" THEN [ok |-> TRUE, kind |-> "object", fields |-> <<>>]
            ELSE JsonMembers(inner, <<>>)
        Value(t) ==
            IF t = "null" THEN [ok |-> TRUE, kind |-> "null", fields |-> <<>>]
            ELSE IF StartsWith(t, "{") THEN Object(Trim(SliceFrom(t, 1)))
            ELSE JsonFail
    IN  Value(Trim(text))

\* config[key]: the last member of that name
JsonField(fields, key) ==
    LET Last(is) == IF is = {} THEN JsonUndefined
                    ELSE fields[CHOOSE i \in is : \A j \in is : i >= j][2]
    IN  Last({i \in 1..Len(fields) : fields[i][1] = key})

\* whether a JSON value is truthy
JsonTruthy(v) ==
    \/ v.kind = "string" /\ v.text # ""
    \/ v.kind = "number" /\ v.text \notin {"0", "-0"}
    \/ v.kind = "literal" /\ v.text = "true"

\* a string as JSON.stringify writes it, without the quotes around it
RECURSIVE JsonEscape(_)
JsonEscape(str) ==
    IF Len(str) <= 1
    THEN (IF str = "\"" \/ str = "\\" THEN "\\" \o str
          ELSE IF str = "\n" THEN "\\n" ELSE IF str = "\t" THEN "\\t"
          ELSE IF str = "\r" THEN "\\r" ELSE IF str = "\f" THEN "\\f" ELSE str)
    ELSE JsonEscape(SubSeq(str, 1, Len(str) \div 2))
         \o JsonEscape(SubSeq(str, Len(str) \div 2 + 1, Len(str)))

\* the members of an object as JSON.stringify writes them; the keys are plain
\* words and the values strings
RECURSIVE JsonMembersText(_)
JsonMembersText(members) ==
    IF members = <<>> THEN ""
    ELSE "\"" \o Head(members)[1] \o "\":\"" \o JsonEscape(Head(members)[2]) \o "\""
         \o (IF Len(members) = 1 THEN "" ELSE ",") \o JsonMembersText(Tail(members))

\* JSON.stringify of an object, given its members in order
JSONStringify(members) == "{" \o JsonMembersText(members) \o "}"

-----------------------------------------------------------------------------
(* parseVMess and its four link forms (vmess.ts)                           *)

VMessRecord(remark, add, port, id, aid, cipher, net, type, host, path, tls, sni) ==
    createProxy(
        [type |-> "vmess", remark |-> RemarkOr(remark, add, port),
         hostname |-> add, port |-> port, userId |-> id, alterId |-> aid,
         encryptMethod |-> cipher, transferProtocol |-> net,
         fakeType |-> OrUndefined(type), host |-> OrUndefined(host), path |-> path,
         tlsSecure |-> IF tls = "tls" THEN "true" ELSE "false",
         serverName |-> OrUndefined(sni), group |-> "V2RayProvider"])

\* the length of the longest prefix of t made of characters of chars
RunLength(t, chars) ==
    CHOOSE n \in 0..Len(t) :
        /\ n < Len(t) => ~Includes(chars, SubSeq(t, n + 1, n + 1))
        /\ KeepChars(SubSeq(t, 1, n), chars) = SubSeq(t, 1, n)

\* stdPattern:
\* /^([a-z]+)(?:\+([a-z]+))?:([\da-f]{8}(?:-[\da-f]{4}){3}-[\da-f]{12})-(\d+)@(.+):(\d+)(?:\/?\?(.*))?$/i
\* [ok, net, tls, id, aidStr, add, portStr, query]
StdPatternMatch(vmess) ==
    LET Fail == [ok |-> FALSE]
        Letters == LowerAlpha \o UpperAlpha
        NoBreak(t) == ~Includes(t, "\n") /\ ~Includes(t, "\r")
        IsUuid(u) ==
            /\ Len(u) = 36
            /\ \A j \in {9, 14, 19, 24} : SubSeq(u, j, j) = "-"
            /\ Len(KeepChars(u, HexChars)) = 32
        \* (\d+)(?:\/?\?(.*))?$ with d digits read
        TailOk(t, d) ==
            /\ d >= 1
            /\ \/ d = Len(t)
               \/ SubSeq(t, d + 1, d + 1) = "?" /\ NoBreak(t)
               \/ SubSeq(t, d + 1, d + 1) = "/" /\ CharAt(t, d + 1) = "?" /\ NoBreak(t)
        Cut(m, hostPort, k, d) ==
            [ok |-> TRUE, net |-> m.net, tls |-> m.tls, id |-> m.id, aidStr |-> m.aidStr,
             add |-> Slice(hostPort, 0, k), portStr |-> Slice(hostPort, k + 1, k + 1 + d),
             query |-> IF k + 1 + d = Len(hostPort) THEN Undefined
                       ELSE IF CharAt(hostPort, k + 1 + d) = "/"
                       THEN SliceFrom(hostPort, k + 3 + d)
                       ELSE SliceFrom(hostPort, k + 2 + d)]
        Colon(m, hostPort, k) ==
            IF k = -1 THEN Fail
            ELSE Cut(m, hostPort, k, RunLength(SliceFrom(hostPort, k + 1), Digits))
        \* (.+):  the last colon the rest of the pattern matches after
        Address(m, hostPort) ==
            Colon(m, hostPort,
                  CHOOSE k \in {-1} \cup Occurrences(hostPort, ":") :
                      \A j \in Occurrences(hostPort, ":") :
                          (/\ j > k
                           /\ j >= 1
                           /\ NoBreak(Slice(hostPort, 0, j)))
                          => ~TailOk(SliceFrom(hostPort, j + 1),
                                     RunLength(SliceFrom(hostPort, j + 1), Digits))
                      )
        Aid(m, rest, d) ==
            IF d < 1 \/ CharAt(rest, d) # "@" THEN Fail
            ELSE Address([m EXCEPT !.aidStr = Slice(rest, 0, d)], SliceFrom(rest, d + 1))
        Id(m, rest) ==
            IF ~IsUuid(Slice(rest, 0, 36)) \/ CharAt(rest, 36) # "-" THEN Fail
            ELSE Aid([m EXCEPT !.id = Slice(rest, 0, 36)], SliceFrom(rest, 37),
                     RunLength(SliceFrom(rest, 37), Digits))
        Scheme(net, tls, colon) ==
            IF CharAt(vmess, colon) # ":" THEN Fail
            ELSE Id([net |-> net, tls |-> tls, id |-> "", aidStr |-> ""],
                    SliceFrom(vmess, colon + 1))
        Tls(n, m) ==
            IF n < 1 \/ (CharAt(vmess, n) = "+" /\ m < 1) THEN Fail
            ELSE Scheme(Slice(vmess, 0, n),
                        IF CharAt(vmess, n) = "+" THEN Slice(vmess, n + 1, n + 1 + m)
                        ELSE Undefined,
                        IF CharAt(vmess, n) = "+" THEN n + 1 + m ELSE n)
        Net(n) == Tls(n, RunLength(SliceFrom(vmess, n + 1), Letters))
    IN  Net(RunLength(vmess, Letters))

parseStandardVMess(uri) ==
    LET Build(m, port, p, remark) ==
            VMessRecord(remark, m.add, port, m.id, ParseInt(m.aidStr), "auto", m.net,
                        IF m.net \in {"tcp", "kcp"} THEN p.type
                        ELSE IF m.net = "quic" THEN p.security ELSE "",
                        IF m.net \in {"http", "ws"} THEN p.host
                        ELSE IF m.net = "quic" THEN p.type ELSE "",
                        OrElse(IF m.net \in {"http", "ws"} THEN p.path
                               ELSE IF m.net = "quic" THEN p.key ELSE "", "/"),
                        m.tls, "")
        Params(m, port, q, remark) ==
            IF ~q.ok THEN Thrown
            ELSE Build(m, port,
                       [k \in {"type", "security", "host", "path", "key"}
                           |-> Param(q.params, k)],
                       remark)
        Checked(m, port, remark) ==
            IF m.add = "" \/ BadPort(port) THEN Null
            ELSE Params(m, port,
                        IF m.query = "" \/ m.query = Undefined THEN NoParams
                        ELSE parseQueryString(m.query),
                        remark)
        Main(m, remark) ==
            IF ~m.ok THEN Null ELSE Checked(m, ParseInt(m.portStr), remark)
        Fragment(vmess, hashIndex) ==
            Main(StdPatternMatch(IF hashIndex # -1 THEN Slice(vmess, 0, hashIndex) ELSE vmess),
                 IF hashIndex # -1 THEN urlDecode(SliceFrom(vmess, hashIndex + 1)) ELSE "")
        Try(vmess) == Fragment(vmess, LastIndexOf(vmess, "#"))
    IN  Catch(Try(SliceFrom(uri, 8)))

parseShadowrocketVMess(uri) ==
    LET Build(cipher, id, add, port, p) ==
            VMessRecord(IF p.remarks # "" THEN urlDecode(p.remarks) ELSE "",
                        add, port, id, ParseInt(OrElse(p.aid, "0")), cipher,
                        IF p.obfs = "websocket" THEN "ws"
                        ELSE IF p.network # "" THEN p.network ELSE "tcp",
                        "",
                        IF p.obfs = "websocket" THEN p.obfsParam
                        ELSE IF p.network # "" THEN p.wsHost ELSE "",
                        OrElse(IF p.obfs = "websocket" THEN p.path
                               ELSE IF p.network # "" THEN p.wspath ELSE "", "/"),
                        IF p.tls = "1" THEN "tls" ELSE "", "")
        Params(match, port, q) ==
            IF ~q.ok THEN Thrown
            ELSE Build(match.groups[1], match.groups[2], match.groups[3], port,
                       [k \in {"remarks", "aid", "obfs", "network", "obfsParam", "wsHost",
                               "path", "wspath", "tls"} |-> Param(q.params, k)])
        Checked(match, port, query) ==
            IF BadPort(port) THEN Null ELSE Params(match, port, parseQueryString(query))
        Main(match, query) ==
            IF ~match.ok THEN Null ELSE Checked(match, ParseInt(match.groups[4]), query)
        Query(rocket, queryIndex) ==
            Main(MatchGroups(MethodAuthHostPortPattern,
                             urlSafeBase64Decode(
                                 IF queryIndex = -1 THEN Slice(rocket, 0, Len(rocket) - 1)
                                 ELSE Slice(rocket, 0, queryIndex))),
                 SliceFrom(rocket, queryIndex + 1))
        Try(rocket) == Query(rocket, IndexOf(rocket, "?"))
    IN  Catch(Try(SliceFrom(uri, 8)))

\* the options loop of parseQuantumultVMess, from parts[i] on
RECURSIVE QuantumultOptions(_, _, _)
QuantumultOptions(parts, i, options) ==
    LET Set(key, value) ==
            IF key = "over-tls"
            THEN [options EXCEPT !.tls = IF value = "true" THEN "tls" ELSE ""]
            ELSE IF key = "tls-host" THEN [options EXCEPT !.host = value]
            ELSE IF key = "obfs-path"
            THEN (IF value = Undefined THEN Thrown
                  ELSE [options EXCEPT !.path = ReplaceAll(value, "\"", "")])
            ELSE IF key = "obfs" /\ value = "ws" THEN [options EXCEPT !.net = "ws"]
            ELSE options
        Option(kv) == Set(Trim(kv[1]), IF Len(kv) >= 2 THEN Trim(kv[2]) ELSE Undefined)
    IN  IF IsThrown(options) \/ i > Len(parts) THEN options
        ELSE QuantumultOptions(parts, i + 1, Option(Split(parts[i], "=")))

parseQuantumultVMess(quan) ==
    LET Build(parts, remark, port, options) ==
            IF IsThrown(options) THEN Thrown
            ELSE VMessRecord(remark, parts[3], port, ReplaceAll(parts[6], "\"", ""), Num(0),
                             parts[5], options.net, "", options.host, options.path,
                             options.tls, "")
        Checked(parts, port) ==
            IF parts[3] = "" \/ BadPort(port) THEN Null
            ELSE Build(parts, Trim(Split(parts[1], "=")[1]), port,
                       QuantumultOptions(parts, 7,
                                         [net |-> "tcp", tls |-> "", host |-> "", path |-> "/"]))
        Main(parts) ==
            IF Len(parts) < 6 \/ ~Includes(parts[2], "vmess") THEN Null
            ELSE Checked(parts, ParseInt(parts[4]))
        Trimmed(raw) == [i \in 1..Len(raw) |-> Trim(raw[i])]
    IN  Catch(Main(Trimmed(Split(quan, ","))))

parseVMess(uri) ==
    LET UrlSafe == LowerAlpha \o UpperAlpha \o Digits \o "-_"
        \* /vmess:\/\/[A-Za-z0-9\-_]+\?/.test(uri)
        Shadowrocket ==
            \E i \in Occurrences(uri, "vmess://") : \E q \in Occurrences(uri, "?") :
                q > i + 8 /\ KeepChars(Slice(uri, i + 8, q), UrlSafe) = Slice(uri, i + 8, q)
        \* /vmess:\/\/.*?@/.test(uri)
        Standard ==
            \E i \in Occurrences(uri, "vmess://") : \E a \in Occurrences(uri, "@") :
                /\ a >= i + 8
                /\ \A b \in Occurrences(uri, "\n") \cup Occurrences(uri, "\r") :
                       b < i + 8 \/ b > a
        Text(v, default) == IF JsonTruthy(v) THEN v.text ELSE default
        Build(c, add, port, host, path) ==
            IF add = "" \/ BadPort(port) THEN Null
            ELSE VMessRecord(Text(c.ps, ""), add, port,
                             Text(c.id, "00000000-0000-0000-0000-000000000000"),
                             ParseInt(Text(c.aid, "0")), Text(c.scy, "auto"),
                             Text(c.net, "tcp"), Text(c.type, ""), host, OrElse(path, "/"),
                             IF c.tls.kind = "string" THEN c.tls.text ELSE "",
                             Text(c.sni, ""))
        \* version 1: host holds "host;path"
        HostPath(c, add, host, path, split) ==
            Build(c, add, ParseInt(Text(c.port, "0")),
                  IF split THEN Split(host, ";")[1] ELSE host,
                  IF split THEN OrElse(Split(host, ";")[2], path) ELSE path)
        Version(c, add, host, path, version1) ==
            IF version1 /\ host # "" /\ c.host.kind # "string" THEN Thrown
            ELSE HostPath(c, add, host, path, version1 /\ Includes(host, ";"))
        Fields(c) ==
            IF JsonTruthy(c.add) /\ c.add.kind # "string" THEN Thrown
            ELSE Version(c, Trim(Text(c.add, "")), Text(c.host, ""), Text(c.path, ""),
                         ~JsonTruthy(c.v) \/ c.v = [kind |-> "string", text |-> "1"])
        V2rayN(config) ==
            IF ~config.ok THEN Null
            ELSE IF config.kind = "null" THEN Thrown
            ELSE Fields([k \in {"v", "ps", "add", "port", "id", "aid", "net", "type", "host",
                                "path", "tls", "sni", "scy"} |-> JsonField(config.fields, k)])
        Decoded(decoded) ==
            IF Includes(decoded, " = ") THEN parseQuantumultVMess(decoded)
            ELSE V2rayN(JSONParse(decoded))
        Try ==
            IF Shadowrocket THEN parseShadowrocketVMess(uri)
            ELSE IF Standard THEN parseStandardVMess(uri)
            ELSE Decoded(urlSafeBase64Decode(
                     IF StartsWith(uri, "vmess1://") THEN SliceFrom(uri, 9)
                     ELSE SliceFrom(uri, 8)))
    IN  IF ~StartsWith(uri, "vmess://") /\ ~StartsWith(uri, "vmess1://") THEN Null
        ELSE Catch(Try)

-----------------------------------------------------------------------------
(* parseLink (parsers/index.ts)                                            *)

parseLink(uri) ==
    LET Dispatch(trimmed) ==
            IF trimmed = "" THEN Null
            ELSE IF StartsWith(trimmed, "ss://") THEN parseSS(trimmed)
            ELSE IF StartsWith(trimmed, "ssr://") THEN parseSSR(trimmed)
            ELSE IF StartsWith(trimmed, "vmess://") \/ StartsWith(trimmed, "vmess1://")
            THEN parseVMess(trimmed)
            ELSE IF StartsWith(trimmed, "trojan://") THEN parseTrojan(trimmed)
            ELSE IF StartsWith(trimmed, "hysteria2://") \/ StartsWith(trimmed, "hy2://")
            THEN parseHysteria2(trimmed)
            ELSE Null
    IN  Dispatch(Trim(uri))

-----------------------------------------------------------------------------
(* The flat-bundle link generator (generators/mixed.ts)                    *)

\* `${x}` for a string that may be undefined
Str(x) == IF x = Undefined THEN "undefined" ELSE x

\* `${node.hostname}:${node.port}`
Authority(node) == node.hostname \o ":" \o NumToString(node.port.v)

\* '?' + params.join('&') when there are params
QuerySuffix(prefix, params) == IF params = <<>> THEN "" ELSE prefix \o Join(params, "&")

\* the params.push(`name=${encoded}`) of one `if (value)`
OptionalParam(name, value, encoded) ==
    IF value = "" \/ value = Undefined THEN <<>> ELSE <<name \o "=" \o encoded>>

nodeToSSLink(node) ==
    "ss://" \o urlSafeBase64Encode(Str(node.encryptMethod) \o ":" \o Str(node.password))
    \o "@" \o Authority(node)
    \o (IF node.plugin = "" \/ node.plugin = Undefined THEN "" ELSE "?plugin=")
    \o urlEncode(IF node.plugin = "" \/ node.plugin = Undefined THEN ""
                 ELSE IF node.pluginOption = "" \/ node.pluginOption = Undefined
                 THEN node.plugin
                 ELSE node.plugin \o ";" \o node.pluginOption)
    \o "#" \o urlEncode(node.remark)

nodeToSSRLink(node) ==
    LET Encoded(value) == urlSafeBase64Encode(OrElse(value, ""))
    IN  "ssr://" \o urlSafeBase64Encode(
            Authority(node) \o ":" \o OrElse(node.protocol, "origin") \o ":"
            \o Str(node.encryptMethod) \o ":" \o OrElse(node.obfs, "plain") \o ":"
            \o Encoded(node.password)
            \o QuerySuffix("/?",
                   OptionalParam("obfsparam", node.obfsParam, Encoded(node.obfsParam))
                   \o OptionalParam("protoparam", node.protocolParam,
                                    Encoded(node.protocolParam))
                   \o <<"remarks=" \o Encoded(node.remark)>>
                   \o OptionalParam("group", node.group, Encoded(node.group))))

nodeToVMessLink(node) ==
    "vmess://" \o base64Encode(JSONStringify(
        << <<"v", "2">>, <<"ps", node.remark>>, <<"add", node.hostname>>,
           <<"port", NumToString(node.port.v)>>, <<"id", OrElse(node.userId, "")>>,
           <<"aid", IF FalsyNum(node.alterId) THEN "0" ELSE NumToString(node.alterId.v)>>,
           <<"scy", OrElse(node.encryptMethod, "auto")>>,
           <<"net", OrElse(node.transferProtocol, "tcp")>>,
           <<"type", OrElse(node.fakeType, "none")>>, <<"host", OrElse(node.host, "")>>,
           <<"path", OrElse(node.path, "")>>,
           <<"tls", IF node.tlsSecure = "true" THEN "tls" ELSE "">>,
           <<"sni", OrElse(node.serverName, "")>> >>))

nodeToTrojanLink(node) ==
    "trojan://" \o urlEncode(OrElse(node.password, "")) \o "@" \o Authority(node)
    \o QuerySuffix("?",
           OptionalParam("sni", node.host, urlEncode(node.host))
           \o (IF OrElse(node.transferProtocol, "tcp") = "ws" THEN <<"type=ws">>
               ELSE IF node.transferProtocol = "grpc" THEN <<"type=grpc">> ELSE <<>>)
           \o (IF OrElse(node.transferProtocol, "tcp") \in {"ws", "grpc"}
               THEN OptionalParam(IF node.transferProtocol = "ws" THEN "path"
                                  ELSE "serviceName", node.path, urlEncode(node.path))
               ELSE <<>>)
           \o (IF node.allowInsecure = "true" THEN <<"allowInsecure=1">> ELSE <<>>))
    \o "#" \o urlEncode(node.remark)

nodeToHysteria2Link(node) ==
    "hysteria2://" \o urlEncode(OrElse(node.password, "")) \o "@" \o Authority(node)
    \o QuerySuffix("?",
           OptionalParam("sni", node.sni, urlEncode(node.sni))
           \o OptionalParam("obfs", node.obfs, urlEncode(node.obfs))
           \o (IF node.obfs = "" \/ node.obfs = Undefined THEN <<>>
               ELSE OptionalParam("obfs-password", node.obfsPassword,
                                  urlEncode(node.obfsPassword)))
           \o OptionalParam("up", node.up, urlEncode(node.up))
           \o OptionalParam("down", node.down, urlEncode(node.down))
           \o (IF node.allowInsecure = "true" THEN <<"insecure=1">> ELSE <<>>)
           \o OptionalParam("pinSHA256", node.fingerprint, urlEncode(node.fingerprint)))
    \o "#" \o urlEncode(node.remark)

\* nodeToLink with every type enabled (TYPE_ALL, the default of generateMixed);
\* Undefined stands for its null
nodeToLink(node) ==
    IF node.type = "ss" THEN nodeToSSLink(node)
    ELSE IF node.type = "ssr" THEN nodeToSSRLink(node)
    ELSE IF node.type = "vmess" THEN nodeToVMessLink(node)
    ELSE IF node.type = "trojan" THEN nodeToTrojanLink(node)
    ELSE IF node.type = "hysteria2" THEN nodeToHysteria2Link(node)
    ELSE Undefined

-----------------------------------------------------------------------------
(* Node de-duplication (parsers/index.ts)                                  *)

\* bounds of the de-duplication inputs
MaxNodes == 3

DedupHosts == {"example.com", "example.com:8"}
DedupPorts == {388, 8388}
DedupRemarks == {"n1", "n2"}

DedupNode == [hostname : DedupHosts, port : DedupPorts, remark : DedupRemarks]

\* all sequences over S of length at most n
SeqUpTo(S, n) == UNION {[1..k -> S] : k \in 0..n}

\* `${node.hostname}:${node.port}`
DedupKeyHostOnly(node) == node.hostname

DedupKey(node) == node.hostname \o ":" \o NumToString(node.port)

\* nodes.filter(node => { if (seen.has(key)) return false; seen.add(key); return true })
RECURSIVE DedupFilter(_, _)
DedupFilter(xs, seen) ==
    IF xs = <<>> THEN <<>>
    ELSE LET key == DedupKey(Head(xs))
         IN  IF key \in seen THEN DedupFilter(Tail(xs), seen)
             ELSE <<Head(xs)>> \o DedupFilter(Tail(xs), seen \cup {key})

\* the filter with its test inverted: a node is kept when its key was seen
RECURSIVE DedupFilterInverted(_, _)
DedupFilterInverted(xs, seen) ==
    IF xs = <<>> THEN <<>>
    ELSE LET key == DedupKey(Head(xs))
         IN  IF key \in seen
             THEN <<Head(xs)>> \o DedupFilterInverted(Tail(xs), seen)
             ELSE DedupFilterInverted(Tail(xs), seen \cup {key})

deduplicateNodesInverted(xs) == DedupFilterInverted(xs, {})

deduplicateNodes(xs) == DedupFilter(xs, {})

IdleDedup == nodes = <<>> /\ input = <<>>
IdleGroups ==
    /\ groupLines = <<>> /\ proxyNames = <<>> /\ configs = <<>>
    /\ cursor = 0 /\ group = Null /\ generatedGroups = <<>>
IdleLinks == origin = Null /\ link = "" /\ parsed = Null /\ relink = "" /\ reparsed = Null
IdleSub == content = "" /\ subNodes = <<>>
IdleRoute == request = Null /\ fetched = Null /\ response = Null
IdleRules == parsedConfig = Null /\ proxyGroups = <<>> /\ rulesetCache = <<>> /\ entry = 0 /\ allRules = <<>> /\ rules = <<>> /\ fetchLog = <<>>
IdleClash == generatorOptions = Null /\ clashProxySeq = <<>>
IdleConv == clock = 0 /\ conversions = <<>>

InitDedup ==
    /\ pc = "start"
    /\ input \in SeqUpTo(DedupNode, MaxNodes)
    /\ nodes = input
    /\ IdleGroups /\ IdleLinks /\ IdleSub /\ IdleRoute /\ IdleRules /\ IdleClash /\ IdleConv

\* route.ts: nodes = deduplicateNodes(nodes)
Deduplicate ==
    /\ pc = "start"
    /\ nodes' = deduplicateNodes(nodes)
    /\ pc' = "deduped"
    /\ UNCHANGED <<input, groupVars, linkVars, subVars, routeVars, ruleVars, clashVars, convVars>>

\* a second application to the list the first one returned
DeduplicateAgain ==
    /\ pc = "deduped"
    /\ nodes' = deduplicateNodes(nodes)
    /\ pc' = "rededuped"
    /\ UNCHANGED <<input, groupVars, linkVars, subVars, routeVars, ruleVars, clashVars, convVars>>

NextDedup == Deduplicate \/ DeduplicateAgain

SpecDedup == InitDedup /\ [][NextDedup]_vars

\* C4: deduplicateNodes is idempotent: applying it to a list it returned
\* leaves that list unchanged.
C4_Idempotent == [][pc = "deduped" => nodes' = nodes]_vars

\* a list with a duplicate has been de-duplicated twice
C4_Witness ==
    /\ pc = "rededuped"
    /\ Len(nodes) < Len(input)
    /\ Len(nodes) >= 2

HostPort(node) == <<node.hostname, node.port>>

\* the positions of xs that hold the first occurrence of their host:port pair
FirstPositions(xs) ==
    {i \in 1..Len(xs) : \A j \in 1..(i - 1) : HostPort(xs[j]) # HostPort(xs[i])}

\* the subsequence of xs at the positions in P
RECURSIVE SubseqAt(_, _, _)
SubseqAt(xs, P, i) ==
    IF i > Len(xs) THEN <<>>
    ELSE (IF i \in P THEN <<xs[i]>> ELSE <<>>) \o SubseqAt(xs, P, i + 1)

\* C5: deduplicateNodes returns the subsequence that keeps exactly the first
\* occurrence of every host:port pair, in input order; no two output nodes
\* share a pair and every input pair appears in the output.
C5_FirstOccurrenceWins ==
    pc = "deduped" =>
        /\ nodes = SubseqAt(input, FirstPositions(input), 1)
        /\ \A i, j \in 1..Len(nodes) : i # j => HostPort(nodes[i]) # HostPort(nodes[j])
        /\ {HostPort(input[i]) : i \in 1..Len(input)}
             = {HostPort(nodes[i]) : i \in 1..Len(nodes)}

\* Scenario D: two nodes share example.com:8388 and the first one survives
C5_Witness ==
    /\ pc = "deduped"
    /\ Len(input) = 2
    /\ HostPort(input[1]) = <<"example.com", 8388>>
    /\ HostPort(input[2]) = <<"example.com", 8388>>
    /\ input[1].remark # input[2].remark
    /\ nodes = <<input[1]>>

-----------------------------------------------------------------------------
(* Proxy-group grammar (parsers/config.ts)                                 *)

\* The field delimiter of a custom_proxy_group value is the backquote (U+0060),
\* which a TLA+ string cannot hold: the model writes it as `~`, a character
\* that occurs in no name, URL or pattern of the model.
Backquote == "~"

\* isValidProxyGroupType
isValidProxyGroupType(type) ==
    type \in {"select", "url-test", "fallback", "load-balance", "relay"}

\* config.ts isRegexPattern
ConfigIsRegexPattern(str) ==
    \/ str = ".*" \/ str = ".+"
    \/ Includes(str, "|") /\ (StartsWith(str, "(") \/ Includes(str, "["))
    \/ Includes(str, "\\")
    \/ \E ch \in {"^", "$", "\\d", "\\w", "\\s", "+", "?"} : Includes(str, ch)

\* the interval/tolerance branch of parseProxyGroup: "300,,50" or "300"
ApplyInterval(pg, part) ==
    LET Tolerance(nums, withInterval) ==
            IF Len(nums) >= 3 /\ nums[3] # ""
            THEN [withInterval EXCEPT !.tolerance = ParseInt(nums[3])]
            ELSE IF Len(nums) = 2 /\ nums[2] # ""
            THEN [withInterval EXCEPT !.tolerance = ParseInt(nums[2])]
            ELSE withInterval
        Interval(nums) ==
            Tolerance(nums, IF nums[1] # "" THEN [pg EXCEPT !.interval = ParseInt(nums[1])]
                            ELSE pg)
    IN  Interval(Split(part, ","))

\* one iteration of the loop over parts[2..] of parseProxyGroup
ApplyPart(pg, rawPart) ==
    LET Field(part) ==
            IF part = "" THEN pg
            ELSE IF StartsWith(part, "[]")
                THEN [pg EXCEPT !.proxies = Append(@, SliceFrom(part, 2))]
            ELSE IF StartsWith(part, "http://") \/ StartsWith(part, "https://")
                THEN [pg EXCEPT !.url = part]
            ELSE IF IsDigit(CharAt(part, 0)) THEN ApplyInterval(pg, part)
            ELSE IF ConfigIsRegexPattern(part)
                THEN [pg EXCEPT !.proxies = Append(@, part),
                                !.useRegexFilter = TRUE,
                                !.regexFilter = part]
            ELSE pg
    IN  Field(Trim(rawPart))

RECURSIVE ApplyParts(_, _, _)
ApplyParts(pg, parts, i) ==
    IF i > Len(parts) THEN pg ELSE ApplyParts(ApplyPart(pg, parts[i]), parts, i + 1)

\* the defaults parseProxyGroup injects for url-test and fallback
ApplyDefaults(pg) ==
    LET auto    == pg.type = "url-test" \/ pg.type = "fallback"
        withUrl == IF auto /\ Falsy(pg.url)
                   THEN [pg EXCEPT !.url = "http://www.gstatic.com/generate_204"] ELSE pg
    IN  IF auto /\ FalsyNum(withUrl.interval)
        THEN [withUrl EXCEPT !.interval = [nan |-> FALSE, v |-> 300]] ELSE withUrl

\* parseProxyGroup(value)
parseProxyGroup(value) ==
    LET Named(parts, name, type) ==
            IF name = "" \/ ~isValidProxyGroupType(type) THEN Null
            ELSE ApplyDefaults(ApplyParts(
                     [name |-> name, type |-> type, proxies |-> <<>>,
                      url |-> Undefined, interval |-> UnsetNum, tolerance |-> UnsetNum,
                      useRegexFilter |-> FALSE, regexFilter |-> Undefined],
                     parts, 3))
        Fields(parts) ==
            IF Len(parts) < 3 THEN Null
            ELSE Named(parts, Trim(parts[1]), ToLowerCase(Trim(parts[2])))
    IN  Fields(Split(value, Backquote))

\* parseConfig, case 'custom_proxy_group': the non-null results, in line order
RECURSIVE parseConfigGroups(_)
parseConfigGroups(lines) ==
    LET Push(proxyGroup) == IF IsNull(proxyGroup) THEN <<>> ELSE <<proxyGroup>>
    IN  IF lines = <<>> THEN <<>>
        ELSE Push(parseProxyGroup(Head(lines))) \o parseConfigGroups(Tail(lines))

-----------------------------------------------------------------------------
(* Proxy-group resolver (generators/proxygroup.ts)                         *)

SPECIAL_PROXIES == {"DIRECT", "REJECT"}

\* proxygroup.ts isRegexPattern
GroupIsRegexPattern(str) ==
    \E ch \in {"*", "+", "?", "[", "]", "(", ")", "|", "^", "$", ".", "\\"} :
        Includes(str, ch)

SeqRange(xs) == {xs[i] : i \in 1..Len(xs)}

\* addProxy without the `seen` set
addProxyUnseen(resolvedProxies, proxyName) == Append(resolvedProxies, proxyName)

\* addProxy: `seen` always holds exactly the names in resolvedProxies
addProxy(resolvedProxies, proxyName) ==
    IF proxyName \in SeqRange(resolvedProxies) THEN resolvedProxies
    ELSE Append(resolvedProxies, proxyName)

\* addProxies
RECURSIVE addProxies(_, _)
addProxies(resolvedProxies, names) ==
    IF names = <<>> THEN resolvedProxies
    ELSE addProxies(addProxy(resolvedProxies, Head(names)), Tail(names))

\* allProxyNames.filter(n => regex.test(n) = keep)
RECURSIVE FilterByRegex(_, _, _)
FilterByRegex(names, regex, keep) ==
    IF names = <<>> THEN <<>>
    ELSE (IF RegExpTest(regex, Head(names), TRUE) = keep THEN <<Head(names)>> ELSE <<>>)
             \o FilterByRegex(Tail(names), regex, keep)

\* one iteration of `for (const proxy of configProxies)`
ResolveToken(resolvedProxies, proxy, allProxyNames, allGroupNames) ==
    LET Negated(regex) ==
            IF regex.ok
            THEN addProxies(resolvedProxies, FilterByRegex(allProxyNames, regex, FALSE))
            ELSE resolvedProxies
        Pattern(regex) ==
            IF regex.ok
            THEN addProxies(resolvedProxies, FilterByRegex(allProxyNames, regex, TRUE))
            ELSE IF proxy \in SeqRange(allProxyNames)
            THEN addProxy(resolvedProxies, proxy) ELSE resolvedProxies
    IN  IF proxy \in SPECIAL_PROXIES THEN addProxy(resolvedProxies, proxy)
        ELSE IF proxy \in allGroupNames THEN addProxy(resolvedProxies, proxy)
        ELSE IF proxy = ".*" \/ proxy = ".+" THEN addProxies(resolvedProxies, allProxyNames)
        ELSE IF StartsWith(proxy, "!!") THEN Negated(RegExpCompile(SliceFrom(proxy, 2)))
        ELSE IF GroupIsRegexPattern(proxy) THEN Pattern(RegExpCompile(proxy))
        ELSE IF proxy \in SeqRange(allProxyNames) THEN addProxy(resolvedProxies, proxy)
        ELSE IF proxy \in allGroupNames THEN addProxy(resolvedProxies, proxy)
        ELSE resolvedProxies

RECURSIVE ResolveTokens(_, _, _, _)
ResolveTokens(resolvedProxies, configProxies, allProxyNames, allGroupNames) ==
    IF configProxies = <<>> THEN resolvedProxies
    ELSE ResolveTokens(
             ResolveToken(resolvedProxies, Head(configProxies), allProxyNames, allGroupNames),
             Tail(configProxies), allProxyNames, allGroupNames)

\* the fallback applied to url-test groups only
ApplyFallbackUrlTest(resolvedProxies, type, allProxyNames) ==
    IF resolvedProxies = <<>> /\ type = "url-test"
    THEN addProxies(resolvedProxies, allProxyNames)
    ELSE resolvedProxies

\* the fallback of url-test and fallback groups left without members
ApplyFallback(resolvedProxies, type, allProxyNames) ==
    IF resolvedProxies = <<>> /\ (type = "url-test" \/ type = "fallback")
    THEN addProxies(resolvedProxies, allProxyNames)
    ELSE resolvedProxies

\* generateSingleProxyGroup
generateSingleProxyGroup(config, allProxyNames, allGroupNames) ==
    LET probed == config.type \in {"url-test", "fallback", "load-balance"}
        Group(resolvedProxies) ==
            IF resolvedProxies = <<>> THEN Null
            ELSE [name |-> config.name,
                  type |-> config.type,
                  proxies |-> resolvedProxies,
                  url |-> IF ~Falsy(config.url) /\ probed THEN config.url ELSE Undefined,
                  interval |-> IF ~FalsyNum(config.interval) /\ probed
                               THEN config.interval ELSE UnsetNum,
                  tolerance |-> IF ~FalsyNum(config.tolerance) /\ config.type = "url-test"
                                THEN config.tolerance ELSE UnsetNum]
    IN  Group(ApplyFallback(
                  ResolveTokens(<<>>, config.proxies, allProxyNames, allGroupNames),
                  config.type, allProxyNames))

\* generateProxyGroups, first pass: the set of declared group names
GroupNames(cfgs) == {cfgs[i].name : i \in 1..Len(cfgs)}

-----------------------------------------------------------------------------
(* Group declarations resolved against a node list                         *)

\* bound: the number of tail fields of the first group declaration
MaxFields == 2

GroupTypes == {"select", "url-test"}

GroupFields ==
    {"[]DIRECT", "[]A", "[]X", "[]a.b", "[](", ".*", "(A|B)", "!!^A",
     "http://t", "300,,50", "A.*", "!!A", "300,50"}

\* the declarations around the one under study
OtherGroupLines ==
    {[before |-> <<>>, after |-> <<>>],
     [before |-> <<>>, after |-> <<"H~select~[]G~[]DIRECT">>],
     [before |-> <<>>, after |-> <<"H~fallback~[]X">>],
     [before |-> <<"H~bogus~[]X">>, after |-> <<>>]}

NameLists == {<<>>, <<"A", "B">>, <<"axb", "a.b", "(", "axb">>}

\* name`type`field`field...
RECURSIVE GroupLine(_, _)
GroupLine(head, tail) ==
    IF tail = <<>> THEN head
    ELSE GroupLine(head \o Backquote \o Head(tail), Tail(tail))

InitGroups ==
    /\ pc = "start"
    /\ \E type \in GroupTypes, tail \in SeqUpTo(GroupFields, MaxFields),
          others \in OtherGroupLines :
           groupLines = others.before
                            \o <<GroupLine("G" \o Backquote \o type, tail)>>
                            \o others.after
    /\ proxyNames \in NameLists
    /\ configs = <<>> /\ cursor = 0 /\ group = Null /\ generatedGroups = <<>>
    /\ IdleDedup /\ IdleLinks /\ IdleSub /\ IdleRoute /\ IdleRules /\ IdleClash /\ IdleConv

\* parseConfig over the custom_proxy_group lines
ParseConfig ==
    /\ pc = "start"
    /\ configs' = parseConfigGroups(groupLines)
    /\ pc' = "parsed"
    /\ UNCHANGED <<groupLines, proxyNames, cursor, group, generatedGroups,
                   dedupVars, linkVars, subVars, routeVars, ruleVars, clashVars, convVars>>

\* generateProxyGroups, second pass: one iteration of the loop over configs
ResolveGroup ==
    /\ pc = "parsed"
    /\ cursor < Len(configs)
    /\ \E g \in {generateSingleProxyGroup(configs[cursor + 1], proxyNames, GroupNames(configs))} :
           /\ group' = g
           /\ generatedGroups' =
                  IF ~IsNull(g) /\ Len(g.proxies) > 0
                  THEN Append(generatedGroups, g) ELSE generatedGroups
    /\ cursor' = cursor + 1
    /\ UNCHANGED <<pc, groupLines, proxyNames, configs, dedupVars, linkVars, subVars, routeVars, ruleVars, clashVars, convVars>>

\* generateProxyGroups returns generatedGroups
ReturnGroups ==
    /\ pc = "parsed"
    /\ cursor = Len(configs)
    /\ pc' = "resolved"
    /\ UNCHANGED <<groupVars, dedupVars, linkVars, subVars, routeVars, ruleVars, clashVars, convVars>>

NextGroups == ParseConfig \/ ResolveGroup \/ ReturnGroups

SpecGroups == InitGroups /\ [][NextGroups]_vars

\* the positions of the declarations parseProxyGroup accepts
AcceptedLines == {i \in 1..Len(groupLines) : ~IsNull(parseProxyGroup(groupLines[i]))}

\* the declaration the k-th config was parsed from
LineOfConfig(k) ==
    CHOOSE i \in AcceptedLines : Cardinality({j \in AcceptedLines : j <= i}) = k

\* xs without the later duplicates
KeepFirst(xs) ==
    SubseqAt(xs, {i \in 1..Len(xs) : \A j \in 1..(i - 1) : xs[j] # xs[i]}, 1)

\* the tail fields of a declaration
TailFields(line) ==
    LET parts == Split(line, Backquote) IN SubSeq(parts, 3, Len(parts))

\* the names a purely literal tail refers to
LiteralRefs(fields) == [i \in 1..Len(fields) |-> SliceFrom(fields[i], 2)]

Resolving == pc = "parsed" /\ cursor >= 1

\* C1: a declaration whose tail holds only [] references (each naming
\* DIRECT, REJECT, a declared group or a node) resolves to exactly those
\* references, in the order given, later duplicates removed.
C1_LiteralOrder ==
    Resolving =>
        LET fields == TailFields(groupLines[LineOfConfig(cursor)])
            refs   == LiteralRefs(fields)
        IN  (/\ Len(fields) >= 1
             /\ \A i \in 1..Len(fields) : StartsWith(fields[i], "[]")
             /\ \A i \in 1..Len(refs) :
                    refs[i] \in SPECIAL_PROXIES \cup GroupNames(configs) \cup SeqRange(proxyNames))
            => /\ ~IsNull(group)
               /\ group.proxies = KeepFirst(refs)

RECURSIVE Flatten(_)
Flatten(xss) == IF xss = <<>> THEN <<>> ELSE Head(xss) \o Flatten(Tail(xss))

\* what one membership token stands for
Expansion(token) ==
    LET pattern == IF StartsWith(token, "!!") THEN SliceFrom(token, 2) ELSE token
        regex   == RegExpCompile(pattern)
        Matches(n) == RegExpTest(regex, n, TRUE)
        Others(n)  == ~RegExpTest(regex, n, TRUE)
    IN  IF token \in SPECIAL_PROXIES \cup GroupNames(configs) THEN <<token>>
        ELSE IF token \in {".*", ".+"} THEN proxyNames
        ELSE IF StartsWith(token, "!!")
            THEN IF regex.ok THEN SelectSeq(proxyNames, Others) ELSE <<>>
        ELSE IF GroupIsRegexPattern(token) /\ regex.ok THEN SelectSeq(proxyNames, Matches)
        ELSE IF token \in SeqRange(proxyNames) THEN <<token>>
        ELSE <<>>

\* the expansions of a config's tokens, concatenated in token order, first
\* occurrences only
Concatenation(config) ==
    KeepFirst(Flatten([i \in 1..Len(config.proxies) |-> Expansion(config.proxies[i])]))

IsAuto(config) == config.type \in {"url-test", "fallback"}

\* the membership after the fallback of url-test and fallback groups
Membership(config) ==
    IF Concatenation(config) = <<>> /\ IsAuto(config)
    THEN KeepFirst(proxyNames) ELSE Concatenation(config)

\* C2 as stated: every group's membership is the concatenation of its tokens'
\* expansions (a group without members has no entry).
C2_ConcatenationOnly ==
    Resolving =>
        LET expected == Concatenation(configs[cursor])
        IN  IF IsNull(group) THEN expected = <<>> ELSE group.proxies = expected

\* C2 as amended: the membership is the concatenation of the tokens'
\* expansions, first occurrences only, except that a url-test or fallback
\* group whose concatenation is empty gets every node name; a group without
\* members has no entry.
C2_Expansion ==
    Resolving =>
        LET expected == Membership(configs[cursor])
        IN  IF IsNull(group) THEN expected = <<>> ELSE group.proxies = expected

\* Scenario C: G`select`.*`[]DIRECT against [A, B] gives [A, B, DIRECT]
C2_Witness ==
    /\ Resolving
    /\ groupLines[LineOfConfig(cursor)] = "G~select~.*~[]DIRECT"
    /\ proxyNames = <<"A", "B">>
    /\ ~IsNull(group)
    /\ group.proxies = <<"A", "B", "DIRECT">>

\* C3: generateProxyGroups returns the declared groups in declaration order
\* without those whose membership is empty; a url-test or fallback group
\* whose expansion is empty has every node name as members.
C3_DropEmpty ==
    pc = "resolved" =>
        LET declared == [i \in 1..Len(configs) |->
                            [name |-> configs[i].name, type |-> configs[i].type,
                             proxies |-> Membership(configs[i])]]
            returned == [k \in 1..Len(generatedGroups) |->
                            [name |-> generatedGroups[k].name,
                             type |-> generatedGroups[k].type,
                             proxies |-> generatedGroups[k].proxies]]
        IN  returned =
                SubseqAt(declared, {i \in 1..Len(declared) : declared[i].proxies # <<>>}, 1)

\* a select group without members is dropped while the fallback group after
\* it, whose expansion is empty too, is returned with every node name
C3_Witness ==
    /\ pc = "resolved"
    /\ Len(configs) = 2
    /\ configs[1].type = "select"
    /\ Concatenation(configs[1]) = <<>>
    /\ Concatenation(configs[2]) = <<>>
    /\ Len(generatedGroups) = 1
    /\ generatedGroups[1].name = "H"
    /\ generatedGroups[1].proxies = <<"A", "B">>

\* the tail fields of the declaration resolved last, trimmed as parseProxyGroup
\* trims them
ResolvedFields ==
    LET fields == TailFields(groupLines[LineOfConfig(cursor)])
    IN  [i \in 1..Len(fields) |-> Trim(fields[i])]

\* a field the grammar reads as an interval, a test URL or a [] reference
IsIntervalField(field) == IsDigit(CharAt(field, 0))
IsUrlField(field) == StartsWith(field, "http://") \/ StartsWith(field, "https://")
IsReference(field) == StartsWith(field, "[]")

\* C16: a tail field (not a reference, a URL or an interval) that the
\* resolver's isRegexPattern classifies as a regex is classified as a regex
\* by the parser's isRegexPattern too, and parseProxyGroup keeps it among the
\* membership tokens
C16_SameClassification ==
    Resolving =>
        \A i \in 1..Len(ResolvedFields) :
            (/\ ResolvedFields[i] # ""
             /\ ~IsReference(ResolvedFields[i])
             /\ ~IsUrlField(ResolvedFields[i])
             /\ ~IsIntervalField(ResolvedFields[i])
             /\ GroupIsRegexPattern(ResolvedFields[i]))
            => /\ ConfigIsRegexPattern(ResolvedFields[i])
               /\ ResolvedFields[i] \in SeqRange(configs[cursor].proxies)

\* C17: a tail field beginning with !! is a membership token of the parsed
\* group, at the position its place among the references and filters of the
\* declaration gives it, and the nodes not matching its pattern are members
\* of the resolved group
C17_NegationKept ==
    Resolving =>
        LET IsToken(field) ==
                \/ IsReference(field)
                \/ StartsWith(field, "!!")
                \/ ~IsUrlField(field) /\ ~IsIntervalField(field) /\ ConfigIsRegexPattern(field)
            Position(i) == Cardinality({j \in 1..i : IsToken(ResolvedFields[j])})
            regex(i) == RegExpCompile(SliceFrom(ResolvedFields[i], 2))
            Unmatched(i) == {n \in SeqRange(proxyNames) : ~RegExpTest(regex(i), n, TRUE)}
        IN  \A i \in 1..Len(ResolvedFields) :
                StartsWith(ResolvedFields[i], "!!") =>
                    /\ Position(i) <= Len(configs[cursor].proxies)
                    /\ configs[cursor].proxies[Position(i)] = ResolvedFields[i]
                    /\ (regex(i).ok /\ Unmatched(i) # {}) =>
                           /\ ~IsNull(group)
                           /\ Unmatched(i) \subseteq SeqRange(group.proxies)

\* C18: the tolerance of a parsed group comes from the third comma segment
\* of its last interval field that has one; a second segment sets nothing,
\* so a group whose interval fields have no third segment has no tolerance
C18_ThirdSegmentOnly ==
    Resolving =>
        LET nums(i) == Split(ResolvedFields[i], ",")
            WithThird == {i \in 1..Len(ResolvedFields) :
                             /\ IsIntervalField(ResolvedFields[i])
                             /\ Len(nums(i)) >= 3
                             /\ nums(i)[3] # ""}
            last == CHOOSE i \in WithThird : \A j \in WithThird : j <= i
        IN  configs[cursor].tolerance =
                IF WithThird = {} THEN UnsetNum ELSE ParseInt(nums(last)[3])

\* C27: every group generateProxyGroups returns has members, no member
\* twice, and each member is DIRECT, REJECT, a declared group name or the
\* name of a node
C27_MembersWellFormed ==
    \A k \in 1..Len(generatedGroups) :
        /\ generatedGroups[k].proxies # <<>>
        /\ \A i, j \in 1..Len(generatedGroups[k].proxies) :
               generatedGroups[k].proxies[i] = generatedGroups[k].proxies[j] => i = j
        /\ SeqRange(generatedGroups[k].proxies)
               \subseteq SPECIAL_PROXIES \cup GroupNames(configs) \cup SeqRange(proxyNames)

\* a wildcard given twice over a node list with a repeated name, and a
\* group made of a group reference and DIRECT
C27_Witness ==
    /\ pc = "resolved"
    /\ groupLines[1] = "G~select~.*~.*"
    /\ proxyNames = <<"axb", "a.b", "(", "axb">>
    /\ Len(generatedGroups) = 2
    /\ generatedGroups[1].proxies = <<"axb", "a.b", "(">>
    /\ generatedGroups[2].proxies = <<"G", "DIRECT">>

\* C28: a member that names a declared group names a group that is in the
\* returned list: a group dropped for having no members is not referenced
C28_NoDanglingGroup ==
    pc = "resolved" =>
        \A k \in 1..Len(generatedGroups) :
            \A i \in 1..Len(generatedGroups[k].proxies) :
                (/\ generatedGroups[k].proxies[i] \in GroupNames(configs)
                 /\ generatedGroups[k].proxies[i] \notin SPECIAL_PROXIES \cup SeqRange(proxyNames))
                => \E j \in 1..Len(generatedGroups) :
                       generatedGroups[j].name = generatedGroups[k].proxies[i]

-----------------------------------------------------------------------------
(* Links: parse, re-encode, parse again                                    *)
(*                                                                         *)
(* A link is composed from an `origin`: the form of the link and the text  *)
(* of its port, secret, query and fragment.  Every form every parser reads *)
(* is composed, with ports on both sides of each bound, a secret that      *)
(* holds a percent-escape, a query with an escape decodeURIComponent       *)
(* rejects, and bodies that are no Base64 or no JSON.                      *)

PortTexts == {"443", "65535", "0", "65536", "-1"}
Secrets == {"pw", "p%40w"}
Queries == {"", "?sni=s.io", "?sni=%zz", "?plugin=obfs-local%3Bobfs%3Dhttp"}
Fragments == {"", "#n%201"}
UserId == "11111111-2222-3333-4444-555555555555"

Origin(form, port, secret, query, fragment) ==
    [form |-> form, port |-> port, secret |-> secret, query |-> query,
     fragment |-> fragment, protocol |-> "", method |-> "aes-128-gcm", obfs |-> ""]

Origins ==
    {Origin(form, port, secret, query, fragment) :
        form \in {"ss", "trojan", "hysteria2", "hy2"}, port \in PortTexts,
        secret \in Secrets, query \in Queries, fragment \in Fragments}
    \cup {Origin("ss-legacy", port, secret, "", fragment) :
              port \in PortTexts, secret \in Secrets, fragment \in Fragments}
    \cup {[Origin("ssr", port, "pw", query, "")
              EXCEPT !.protocol = protocol, !.method = method, !.obfs = obfs] :
              port \in PortTexts, query \in {"", "/?obfsparam=YS5pbw"},
              protocol \in {"origin", "auth_sha1_v4"}, method \in {"aes-128-gcm", "none"},
              obfs \in {"plain", "http_simple", ""}}
    \cup {Origin("hy2-query", port, secret, "?password=" \o secret, fragment) :
              port \in PortTexts, secret \in Secrets, fragment \in Fragments}
    \cup {Origin(form, port, UserId, query, "") :
              form \in {"vmess-json", "vmess1-json"}, port \in PortTexts,
              query \in {"", ",\"host\":\"c.io;/p\"", ",\"v\":\"2\",\"ps\":\"a = b\"",
                         ",\"add\":7"}}
    \cup {Origin("vmess-std", port, UserId, query, fragment) :
              port \in PortTexts, query \in {"", "?host=c.io&path=%2Fp", "/?host=%zz"},
              fragment \in Fragments}
    \cup {Origin("vmess-rocket", port, UserId, query, "") :
              port \in PortTexts,
              query \in {"?remarks=n1&obfs=websocket&obfsParam=c.io&path=/p&tls=1",
                         "?remarks=%zz&aid=2", "?"}}
    \cup {Origin("vmess-quan", port, UserId, query, "") :
              port \in PortTexts, query \in {"", ", over-tls=true, obfs=ws", ", obfs-path"}}
    \cup {Origin(form, "8388x", "pw", "", "") : form \in {"ss", "ss-legacy", "vmess-json"}}
    \cup {Origin("other", "", text, "", "") :
              text \in {"", "  ", "http://h.io:443", "ss://", "ss://@", "ss://!!@h.io:443",
                        "ssr://!!", "ssr://aC5pbw", "vmess://", "vmess://bnVsbA",
                        "vmess://e30", "vmess://e30=?", "vmess1://e30@", "trojan://",
                        "trojan://@h.io:443", "hysteria2://h.io:443", "hy2://"}}

\* the link an origin denotes
Compose(o) ==
    IF o.form = "ss"
    THEN "ss://" \o urlSafeBase64Encode(o.method \o ":" \o o.secret) \o "@h.io:" \o o.port
         \o o.query \o o.fragment
    ELSE IF o.form = "ss-legacy"
    THEN "ss://" \o base64Encode(o.method \o ":" \o o.secret \o "@h.io:" \o o.port)
         \o o.fragment
    ELSE IF o.form = "ssr"
    THEN "ssr://" \o urlSafeBase64Encode(
             "h.io:" \o o.port \o ":" \o o.protocol \o ":" \o o.method \o ":" \o o.obfs
             \o ":" \o urlSafeBase64Encode(o.secret) \o o.query)
    ELSE IF o.form \in {"vmess-json", "vmess1-json"}
    THEN (IF o.form = "vmess-json" THEN "vmess://" ELSE "vmess1://")
         \o base64Encode("{\"port\":\"" \o o.port \o "\",\"add\":\"h.io\",\"id\":\""
                         \o o.secret \o "\",\"aid\":2" \o o.query \o "}")
    ELSE IF o.form = "vmess-std"
    THEN "vmess://ws+tls:" \o o.secret \o "-2@h.io:" \o o.port \o o.query \o o.fragment
    ELSE IF o.form = "vmess-rocket"
    THEN "vmess://" \o urlSafeBase64Encode("auto:" \o o.secret \o "@h.io:" \o o.port)
         \o o.query
    ELSE IF o.form = "vmess-quan"
    THEN "vmess://" \o base64Encode("n1 = q, vmess, h.io, " \o o.port \o ", auto, \""
                                    \o o.secret \o "\"" \o o.query)
    ELSE IF o.form = "trojan"
    THEN "trojan://" \o o.secret \o "@h.io:" \o o.port \o o.query \o o.fragment
    ELSE IF o.form = "hysteria2"
    THEN "hysteria2://" \o o.secret \o "@h.io:" \o o.port \o o.query \o o.fragment
    ELSE IF o.form = "hy2"
    THEN "hy2://" \o o.secret \o "@h.io:" \o o.port \o "/" \o o.query \o o.fragment
    ELSE IF o.form = "hy2-query"
    THEN "hy2://h.io:" \o o.port \o o.query \o o.fragment
    ELSE o.secret

InitLinks ==
    /\ pc = "start"
    /\ origin \in Origins
    /\ link = Compose(origin)
    /\ parsed = Null /\ relink = "" /\ reparsed = Null
    /\ IdleDedup /\ IdleGroups /\ IdleSub /\ IdleRoute /\ IdleRules /\ IdleClash /\ IdleConv

\* parseSubscription: const node = parseLink(trimmed)
ParseLink ==
    /\ pc = "start"
    /\ parsed' = parseLink(link)
    /\ pc' = "parsed"
    /\ UNCHANGED <<origin, link, relink, reparsed, dedupVars, groupVars, subVars, routeVars, ruleVars, clashVars, convVars>>

\* generateMixed: const link = nodeToLink(node, types), for a node a parser returned
GenerateLink ==
    /\ pc = "parsed"
    /\ ~IsNull(parsed) /\ ~IsThrown(parsed)
    /\ relink' = nodeToLink(parsed)
    /\ pc' = "generated"
    /\ UNCHANGED <<origin, link, parsed, reparsed, dedupVars, groupVars, subVars, routeVars, ruleVars, clashVars, convVars>>

\* the schemes parseLink accepts under two spellings
SchemeAliases ==
    {<<"vmess://", "vmess1://">>, <<"vmess1://", "vmess://">>,
     <<"hysteria2://", "hy2://">>, <<"hy2://", "hysteria2://">>}

\* the same remainder under the other spelling of the scheme of a parsed link
RewriteScheme ==
    /\ pc = "parsed"
    /\ \E alias \in SchemeAliases :
        /\ StartsWith(Trim(link), alias[1])
        /\ relink' = alias[2] \o SliceFrom(Trim(link), Len(alias[1]))
    /\ pc' = "rewritten"
    /\ UNCHANGED <<origin, link, parsed, reparsed, dedupVars, groupVars, subVars, routeVars, ruleVars, clashVars, convVars>>

\* the generated link, or the link under the other spelling of its scheme,
\* read by parseLink
Reparse ==
    /\ pc \in {"generated", "rewritten"}
    /\ reparsed' = parseLink(relink)
    /\ pc' = IF pc = "generated" THEN "reparsed" ELSE "aliased"
    /\ UNCHANGED <<origin, link, parsed, relink, dedupVars, groupVars, subVars, routeVars, ruleVars, clashVars, convVars>>

NextLinks == ParseLink \/ GenerateLink \/ RewriteScheme \/ Reparse

SpecLinks == InitLinks /\ [][NextLinks]_vars

-----------------------------------------------------------------------------
(* Properties of the link parsers, under SpecLinks                         *)

\* the port written in the origin, as parseInt reads it
OriginPort == ParseInt(origin.port)

\* C7: once a link of any of the parsers' forms -- Shadowsocks in both forms,
\* ShadowsocksR, VMess in its four forms, Trojan, Hysteria2 -- has been parsed,
\* a port that reads as 0, as a negative number or as more than 65535 means the
\* parser returned null.
C7_BadPortRejected ==
    (/\ pc # "start"
     /\ origin.form # "other"
     /\ ~OriginPort.nan
     /\ (OriginPort.v <= 0 \/ OriginPort.v > 65535))
    => parsed = Null

\* a link of every form was rejected for its port alone: port 65536 with nothing
\* else wrong (vmess-std stands for the witness, the others are reached alike)
C7_Witness ==
    /\ pc = "parsed"
    /\ origin.form = "vmess-std"
    /\ origin.port = "65536"
    /\ origin.query = ""
    /\ parsed = Null

C9_RoundTrip ==
    pc = "reparsed" =>
        /\ ~IsNull(reparsed)
        /\ ~IsThrown(reparsed)
        /\ \A field \in {"type", "hostname", "port", "password", "userId"} :
               reparsed[field] = parsed[field]

\* C10: no parse raises: the result of parseLink, on the origin's link and on the
\* generated one, is null or a record of one of the five protocols.
C10_NeverRaises ==
    \A result \in {parsed, reparsed} :
        /\ ~IsThrown(result)
        /\ ~IsNull(result) => result.type \in {"ss", "ssr", "vmess", "trojan", "hysteria2"}

\* a link with an invalid percent-escape in a query parameter, and nothing else
\* wrong, was parsed: the URIError of parseQueryString became null
C10_Witness ==
    /\ pc = "parsed"
    /\ origin.form = "hysteria2"
    /\ origin.port = "443"
    /\ origin.query = "?sni=%zz"
    /\ parsed = Null

\* C19: a vmess link whose body decodes to a JSON object with a host, a user
\* id and a port in range parses as the JSON form, whatever the text holds:
\* with the name "a = b" the record is the JSON-form record with that name
C19_JsonBeforeKeyValue ==
    (/\ pc # "start"
     /\ origin.form \in {"vmess-json", "vmess1-json"}
     /\ origin.query # ",\"add\":7"
     /\ ~OriginPort.nan /\ OriginPort.v >= 1 /\ OriginPort.v <= 65535)
    => /\ ~IsNull(parsed)
       /\ parsed.type = "vmess"
       /\ parsed.hostname = "h.io"
       /\ parsed.port = OriginPort
       /\ parsed.userId = UserId
       /\ Includes(origin.query, "\"ps\":\"a = b\"") => parsed.remark = "a = b"

\* C21: a link whose port field is not made of digits only (8388x, -1) gives
\* null, in every form: no record carries the digits the field begins with
C21_NonNumericPortRejected ==
    (/\ pc # "start"
     /\ origin.form # "other"
     /\ KeepChars(origin.port, Digits) # origin.port)
    => parsed = Null

\* C20: a link parses to the same result under either spelling of its scheme:
\* hy2:// and hysteria2://, vmess1:// and vmess:// in every VMess form
C20_AliasSameRecord ==
    pc = "aliased" => reparsed = parsed

-----------------------------------------------------------------------------
(* parseSubscription (parsers/index.ts) and the head of GET (route.ts)     *)
(*                                                                         *)
(* YAML.parse is the `yaml` library: the document it returns for a text is *)
(* carried with the text, content being [text, doc].  A document is        *)
(* [ok, proxies, Proxy], ok FALSE when YAML.parse throws; the value of a   *)
(* key is [kind, text, items], an item of an array an object               *)
(* [kind, text, fields] whose members are scalars [kind, text] as in the   *)
(* JSON model, or a scalar.  The documents hold no nested option maps      *)
(* (plugin-opts, ws-opts, ...), so the branches that read them are not     *)
(* taken.  A number with a fraction is [nan, v, frac, neg]: the integer    *)
(* part, the digits of the fraction, the sign.                             *)

\* x.frac, "" for an integer
Frac(n) == IF "frac" \in DOMAIN n THEN n.frac ELSE ""

\* Number(value) for a scalar holding a decimal literal or a word
ToNumber(value) ==
    LET NaN == [nan |-> TRUE, v |-> 0]
        Signed(neg, n) == IF neg THEN 0 - n ELSE n
        NoZeros(frac, n) == Slice(frac, 0, Len(frac) - n)
        Decimal(neg, whole, frac) ==
            IF \/ whole \o frac = ""
               \/ KeepChars(whole \o frac, Digits) # whole \o frac
            THEN NaN
            ELSE IF frac = "" THEN Num(Signed(neg, DigitsValue(whole)))
            ELSE [nan |-> FALSE, v |-> Signed(neg, DigitsValue(whole)),
                  frac |-> frac, neg |-> neg]
        Point(neg, t, i) ==
            Decimal(neg, IF i = -1 THEN t ELSE Slice(t, 0, i),
                    IF i = -1 THEN ""
                    ELSE NoZeros(SliceFrom(t, i + 1),
                                 CHOOSE n \in 0..Len(t) :
                                     /\ EndsWith(t, SubSeq("0000000000", 1, n))
                                     /\ ~EndsWith(t, SubSeq("0000000000", 1, n + 1))))
        Unsigned(neg, t) == Point(neg, t, IndexOf(t, "."))
        Text(t) ==
            IF t = "" THEN Num(0)
            ELSE Unsigned(StartsWith(t, "-"),
                          IF StartsWith(t, "-") \/ StartsWith(t, "+") THEN SliceFrom(t, 1)
                          ELSE t)
    IN  IF value.kind = "undefined" THEN NaN
        ELSE IF value.kind = "literal" THEN Num(IF value.text = "true" THEN 1 ELSE 0)
        ELSE Text(Trim(value.text))

\* isValidProxy
isValidProxy(proxy) ==
    /\ proxy.type # "unknown"
    /\ proxy.hostname # ""
    /\ ~proxy.port.nan
    /\ (proxy.port.v > 0 \/ (proxy.port.v = 0 /\ Frac(proxy.port) # "" /\ ~proxy.port.neg))
    /\ (proxy.port.v < 65535 \/ (proxy.port.v = 65535 /\ Frac(proxy.port) = ""))

\* parseClashProxy with parseClashSS, parseClashSSR, parseClashVMess,
\* parseClashTrojan and parseClashHysteria2; a key the code leaves out of the
\* record holds Undefined
parseClashProxy(proxy) ==
    LET Field(key) == JsonField(proxy.fields, key)
        \* String(proxy[key] || default)
        Text(key, default) == IF JsonTruthy(Field(key)) THEN Field(key).text ELSE default
        \* Boolean(proxy[key])
        Flag(key) == IF JsonTruthy(Field(key)) THEN "true" ELSE "false"
        \* if (proxy[key]) node[...] = String(proxy[key])
        Optional(key) == IF JsonTruthy(Field(key)) THEN Field(key).text ELSE Undefined
        OrZero(n) == IF n.nan \/ (n.v = 0 /\ Frac(n) = "") THEN Num(0) ELSE n
        Typed(type, baseProxy) ==
            IF type = "ss"
            THEN [type |-> "ss", encryptMethod |-> Text("cipher", "aes-256-gcm"),
                  password |-> Text("password", ""), plugin |-> Optional("plugin")]
                 @@ baseProxy
            ELSE IF type = "ssr"
            THEN [type |-> "ssr", encryptMethod |-> Text("cipher", "aes-256-cfb"),
                  password |-> Text("password", ""),
                  protocol |-> Text("protocol", "origin"),
                  protocolParam |-> Text("protocol-param", ""),
                  obfs |-> Text("obfs", "plain"), obfsParam |-> Text("obfs-param", "")]
                 @@ baseProxy
            ELSE IF type = "vmess"
            THEN [type |-> "vmess", userId |-> Text("uuid", ""),
                  alterId |-> OrZero(ToNumber(Field("alterId"))),
                  encryptMethod |-> Text("cipher", "auto"), tlsSecure |-> Flag("tls"),
                  serverName |-> Text("servername", ""),
                  allowInsecure |-> Flag("skip-cert-verify"),
                  transferProtocol |-> Text("network", "tcp")]
                 @@ baseProxy
            ELSE IF type = "trojan"
            THEN [type |-> "trojan", password |-> Text("password", ""),
                  host |-> Text("sni", ""), allowInsecure |-> Flag("skip-cert-verify"),
                  transferProtocol |-> Text("network", "tcp")]
                 @@ baseProxy
            ELSE IF type \in {"hysteria2", "hy2"}
            THEN [type |-> "hysteria2", password |-> Text("password", ""),
                  sni |-> Text("sni", ""), allowInsecure |-> Flag("skip-cert-verify"),
                  ports |-> Optional("ports"), up |-> Optional("up"),
                  down |-> Optional("down"), obfs |-> Optional("obfs"),
                  obfsPassword |-> IF JsonTruthy(Field("obfs"))
                                   THEN Optional("obfs-password") ELSE Undefined,
                  fingerprint |-> Optional("fingerprint"),
                  alpn |-> IF JsonTruthy(Field("alpn")) THEN <<Field("alpn").text>>
                           ELSE Undefined]
                 @@ baseProxy
            ELSE Null
        Base(server, port) ==
            IF server = "" \/ port = Num(0) THEN Null
            ELSE Typed(ToLowerCase(Text("type", "")),
                       [type |-> "unknown", remark |-> Text("name", ""),
                        hostname |-> server, port |-> port,
                        udp |-> IF Field("udp").kind = "literal" THEN Field("udp").text
                                ELSE Undefined]
                       @@ ProxyDefaults)
    IN  IF proxy.kind # "object" THEN Null
        ELSE Base(Text("server", ""), OrZero(ToNumber(Field("port"))))

\* the nodes of a loop's results that pass `node && isValidProxy(node)`
RECURSIVE ValidNodes(_)
ValidNodes(results) ==
    IF results = <<>> THEN <<>>
    ELSE (IF ~IsNull(Head(results)) /\ isValidProxy(Head(results)) THEN <<Head(results)>>
          ELSE <<>>)
         \o ValidNodes(Tail(results))

\* whether doc?.key is truthy
YamlTruthy(value) == value.kind = "array" \/ (value.kind = "string" /\ value.text # "")

\* parseClashYaml, given what YAML.parse makes of the content
parseClashYaml(doc) ==
    LET Array(proxies) ==
            IF proxies.kind # "array" THEN <<>>
            ELSE ValidNodes([i \in 1..Len(proxies.items) |-> parseClashProxy(proxies.items[i])])
    IN  IF ~doc.ok THEN <<>>
        ELSE Array(IF YamlTruthy(doc.proxies) THEN doc.proxies
                   ELSE IF YamlTruthy(doc.Proxy) THEN doc.Proxy
                   ELSE [kind |-> "array", text |-> "", items |-> <<>>])

\* splitLines: content.split(/\r\n|\r|\n/)
RECURSIVE splitLines(_)
splitLines(text) ==
    LET Cut(i, width) == <<Slice(text, 0, i)>> \o splitLines(SliceFrom(text, i + width))
        At(i) ==
            IF i = -1 THEN <<text>>
            ELSE Cut(i, IF CharAt(text, i) = "\r" /\ CharAt(text, i + 1) = "\n" THEN 2 ELSE 1)
        First(is) == IF is = {} THEN -1 ELSE CHOOSE i \in is : \A j \in is : i <= j
    IN  At(First(Occurrences(text, "\r") \cup Occurrences(text, "\n")))

\* what the loop of parseSubscription makes of one line: null for a line it
\* skips, else the result of parseLink
LineNode(trimmedLine) ==
    parseLink(IF StartsWith(trimmedLine, "#") \/ StartsWith(trimmedLine, ";") THEN ""
              ELSE trimmedLine)

\* the results of the loop of parseSubscription, line by line
LineNodes(lines) == [i \in 1..Len(lines) |-> LineNode(Trim(lines[i]))]

\* parseSubscription's `Try to decode as Base64`: processedContent after it
DecodeContent(processedContent) ==
    LET Decoded(decoded) == IF decoded # "" THEN decoded ELSE processedContent
    IN  IF isBase64(processedContent) /\ ~Includes(processedContent, "://")
        THEN Decoded(urlSafeBase64Decode(processedContent))
        ELSE processedContent

\* parseSubscription without the early return of the document's nodes
ClashAndLines(processedContent, clashNodes) ==
    clashNodes \o ValidNodes(LineNodes(splitLines(DecodeContent(processedContent))))

\* parseSubscription from the test of clashNodes on
ClashOrLines(processedContent, clashNodes) ==
    IF clashNodes # <<>> THEN clashNodes
    ELSE ValidNodes(LineNodes(splitLines(DecodeContent(processedContent))))

parseSubscription(c) ==
    ClashOrLines(Trim(c.text),
                 IF Includes(Trim(c.text), "proxies:") \/ Includes(Trim(c.text), "Proxy:")
                 THEN parseClashYaml(c.doc) ELSE <<>>)

-----------------------------------------------------------------------------
(* Subscriptions: a structured document, a list of link lines, or the      *)
(* Base64 of such a list                                                   *)

YamlString(text) == [kind |-> "string", text |-> text]
YamlNumber(text) == [kind |-> "number", text |-> text]

ClashTypes == {"ss", "SSR", "vmess", "trojan", "hysteria2", "hy2", "http", ""}
ClashServers == {YamlString("h.io"), YamlString("")}
ClashPorts ==
    {YamlNumber("443"), YamlNumber("65535"), YamlNumber("0.5"), YamlNumber("0"),
     YamlNumber("65536"), YamlNumber("65535.5"), YamlNumber("-1"), YamlString("443"),
     YamlString("abc"), JsonUndefined}

ClashProxy(type, server, port) ==
    [kind |-> "object", text |-> "",
     fields |-> << <<"name", YamlString("n1")>>, <<"type", YamlString(type)>>,
                   <<"server", server>>, <<"port", port>>,
                   <<"password", YamlString("pw")>>, <<"uuid", YamlString(UserId)>>,
                   <<"udp", [kind |-> "literal", text |-> "true"]>> >>]

ClashProxies ==
    {ClashProxy(type, server, port) :
         type \in ClashTypes, server \in ClashServers, port \in ClashPorts}

YamlArray(items) == [kind |-> "array", text |-> "", items |-> items]
YamlAbsent == [kind |-> "undefined", text |-> "", items |-> <<>>]
YamlDoc(proxies, legacy) == [ok |-> TRUE, proxies |-> proxies, Proxy |-> legacy]
YamlThrown == [ok |-> FALSE, proxies |-> YamlAbsent, Proxy |-> YamlAbsent]

ClashDocs ==
    {YamlDoc(YamlArray(<<proxy>>), YamlAbsent) : proxy \in ClashProxies}
    \cup {YamlDoc(YamlAbsent, YamlArray(<<proxy>>)) :
              proxy \in {ClashProxy("trojan", YamlString("h.io"), port) : port \in ClashPorts}}
    \cup {YamlDoc(YamlArray(<<ClashProxy("ss", YamlString("h.io"), port), YamlNumber("7"),
                              ClashProxy("hy2", YamlString("h.io"), YamlNumber("8443"))>>),
                  YamlAbsent) : port \in ClashPorts}
    \cup {YamlDoc(YamlArray(<<>>), YamlAbsent),
          YamlDoc([kind |-> "string", text |-> "none", items |-> <<>>], YamlAbsent),
          YamlDoc(YamlAbsent, YamlAbsent), YamlThrown}

\* a document as a text in YAML's flow style
YamlText(doc) ==
    LET Scalar(value) ==
            IF value.kind = "string" THEN "'" \o value.text \o "'" ELSE value.text
        Member(member) == member[1] \o ": " \o Scalar(member[2])
        Item(item) ==
            IF item.kind = "object"
            THEN "\n  - {" \o Join([i \in 1..Len(item.fields) |-> Member(item.fields[i])], ", ")
                 \o "}"
            ELSE "\n  - " \o Scalar(item)
        Value(value) ==
            IF value.kind = "array"
            THEN (IF value.items = <<>> THEN " []"
                  ELSE Join([i \in 1..Len(value.items) |-> Item(value.items[i])], ""))
            ELSE " " \o value.text
        Key(key, value) == IF value.kind = "undefined" THEN "" ELSE key \o Value(value) \o "\n"
    IN  IF ~doc.ok THEN "proxies: ["
        ELSE IF doc.proxies.kind = "undefined" /\ doc.Proxy.kind = "undefined"
        THEN "# proxies: none\nmode: rule"
        ELSE "port: 7890\n" \o Key("proxies:", doc.proxies) \o Key("Proxy:", doc.Proxy)

SubLines ==
    {"trojan://pw@h.io:443#a", "  hy2://pw@h.io:8443/?sni=s.io#b  ", "# comment", "",
     "trojan://pw@h.io:65536#c", "vmess://e30", "trojan://pw@h.io:443#proxies:",
     "ss://" \o base64Encode("aes-128-gcm:pw@h.io:1")}

SubTexts ==
    SubLines
    \cup {first \o "\n" \o second : first \in SubLines, second \in SubLines}
    \cup {"trojan://pw@h.io:443#a" \o newline \o second :
              newline \in {"\r\n", "\r"}, second \in SubLines}

\* documents that carry a link line inside a block scalar, in front of a
\* proxies list that yields a node or none
NotedLink == "note: |\n  trojan://pw@h.io:443#a\n"
NotedDocs ==
    {YamlDoc(YamlArray(<<ClashProxy("trojan", YamlString("h.io"), port)>>), YamlAbsent) :
         port \in {YamlNumber("8443"), YamlNumber("0")}}

\* what YAML.parse makes of a text that holds no proxies list: a document
\* without one, or a syntax error
Contents ==
    {[text |-> YamlText(doc), doc |-> doc] : doc \in ClashDocs}
    \cup {[text |-> text, doc |-> doc] :
              text \in SubTexts, doc \in {YamlDoc(YamlAbsent, YamlAbsent), YamlThrown}}
    \cup {[text |-> base64Encode(text), doc |-> YamlThrown] : text \in SubTexts}
    \cup {[text |-> urlSafeBase64Encode(text), doc |-> YamlThrown] : text \in SubLines}
    \cup {[text |-> NotedLink \o YamlText(doc), doc |-> doc] : doc \in NotedDocs}

InitSub ==
    /\ pc = "start"
    /\ content \in Contents
    /\ subNodes = <<>>
    /\ IdleDedup /\ IdleGroups /\ IdleLinks /\ IdleRoute /\ IdleRules /\ IdleClash /\ IdleConv

\* GET: let nodes = parseSubscription(content)
ParseSubscription ==
    /\ pc = "start"
    /\ subNodes' = parseSubscription(content)
    /\ pc' = "parsed"
    /\ UNCHANGED <<content, dedupVars, groupVars, linkVars, routeVars, ruleVars, clashVars, convVars>>

\* GET: if (nodes.length === 0) return the 400 'No valid nodes found in subscription'
RejectEmpty ==
    /\ pc = "parsed"
    /\ subNodes = <<>>
    /\ response' = [status |-> 400, error |-> "No valid nodes found in subscription"]
    /\ pc' = "failed"
    /\ UNCHANGED <<content, subNodes, dedupVars, groupVars, linkVars, request, fetched, ruleVars, clashVars, convVars>>

\* GET: the nodes go on to filterNodes
PassOn ==
    /\ pc = "parsed"
    /\ subNodes # <<>>
    /\ pc' = "filtering"
    /\ UNCHANGED <<content, subNodes, dedupVars, groupVars, linkVars, routeVars, ruleVars, clashVars, convVars>>

NextSub == ParseSubscription \/ RejectEmpty \/ PassOn

SpecSub == InitSub /\ [][NextSub]_vars

\* C6: every record parseSubscription returned, from a structured document,
\* from a Base64 blob or from link lines, has a non-empty host, a port between
\* 1 and 65535 and a protocol tag other than unknown.
C6_ValidRecords ==
    \A i \in 1..Len(subNodes) :
        /\ subNodes[i].hostname # ""
        /\ subNodes[i].type # "unknown"
        /\ ~subNodes[i].port.nan
        /\ subNodes[i].port.v >= 1
        /\ \/ subNodes[i].port.v < 65535
           \/ subNodes[i].port.v = 65535 /\ Frac(subNodes[i].port) = ""

\* the content has the marker of a proxies list
HasProxiesMarker == Includes(Trim(content.text), "proxies:") \/ Includes(Trim(content.text), "Proxy:")

\* the valid nodes of the link lines of a text
LinkLineNodes(text) == ValidNodes(LineNodes(splitLines(text)))

\* the whole trimmed content is Base64 text without `://`
Base64Attempted == isBase64(Trim(content.text)) /\ ~Includes(Trim(content.text), "://")

\* C26: a content with the proxies-list marker whose document yields a node
\* is answered with exactly the document's nodes; any other content goes to
\* the Base64 step, which only a content that is Base64 text without `://`
\* enters, and then to the link lines
C26_DetectionOrder ==
    pc # "start" =>
        IF HasProxiesMarker /\ parseClashYaml(content.doc) # <<>>
        THEN subNodes = parseClashYaml(content.doc)
        ELSE IF Base64Attempted
        THEN subNodes = LinkLineNodes(DecodeContent(Trim(content.text)))
        ELSE subNodes = LinkLineNodes(Trim(content.text))

C26_Witness ==
    /\ pc = "parsed"
    /\ StartsWith(content.text, NotedLink)
    /\ Len(subNodes) = 1
    /\ subNodes[1].remark = "n1"
    /\ subNodes[1].port = Num(8443)

\* the list of a marked content yields no node and the link lines are read
C26_FallThrough ==
    /\ pc = "parsed"
    /\ StartsWith(content.text, NotedLink)
    /\ Len(subNodes) = 1
    /\ subNodes[1].remark = "a"

-----------------------------------------------------------------------------
(* filterNodes (parsers/index.ts) and the step of GET that calls it        *)

\* filtered.filter(node => regex.test(node.remark) = keep)
RECURSIVE FilterByRemark(_, _, _)
FilterByRemark(filtered, regex, keep) ==
    IF filtered = <<>> THEN <<>>
    ELSE (IF RegExpTest(regex, Head(filtered).remark, FALSE) = keep THEN <<Head(filtered)>>
          ELSE <<>>)
         \o FilterByRemark(Tail(filtered), regex, keep)

\* filterNodes with both filters inside one try block: a pattern that does not
\* compile ends the function
filterNodesOneTry(xs, options) ==
    LET Exclude(filtered, regex) ==
            IF Falsy(options.exclude) THEN filtered
            ELSE IF ~regex.ok THEN filtered
            ELSE FilterByRemark(filtered, regex, FALSE)
        Include(regex) ==
            IF Falsy(options.include) THEN Exclude(xs, RegExpCompile(options.exclude))
            ELSE IF ~regex.ok THEN xs
            ELSE Exclude(FilterByRemark(xs, regex, TRUE), RegExpCompile(options.exclude))
    IN  Include(RegExpCompile(options.include))

\* filterNodes; a pattern is compiled only when it is given, and the empty
\* catch block leaves `filtered` as it was
filterNodes(xs, options) ==
    LET Exclude(filtered, regex) ==
            IF Falsy(options.exclude) THEN filtered
            ELSE IF ~regex.ok THEN filtered
            ELSE FilterByRemark(filtered, regex, FALSE)
        Include(regex) ==
            IF Falsy(options.include) THEN xs
            ELSE IF ~regex.ok THEN xs
            ELSE FilterByRemark(xs, regex, TRUE)
    IN  Exclude(Include(RegExpCompile(options.include)), RegExpCompile(options.exclude))

\* bound of the filter inputs
MaxFilterNodes == 2

FilterRemarks == {"HK 1", "hk 2", "US (1)", "a.b"}
FilterNode == [remark : FilterRemarks, hostname : {"a.io", "b.io"}]
FilterPatterns == {"", "HK", "^hk", "(", "1|2", "a.b"}

\* searchParams.get(name) || undefined
ParamOrUndefined(value) == IF value = "" THEN Undefined ELSE value

InitFilter ==
    /\ pc = "start"
    /\ input \in SeqUpTo(FilterNode, MaxFilterNodes)
    /\ nodes = input
    /\ request \in [include : FilterPatterns, exclude : FilterPatterns]
    /\ fetched = Null /\ response = Null
    /\ IdleGroups /\ IdleLinks /\ IdleSub /\ IdleRules /\ IdleClash /\ IdleConv

\* GET: nodes = filterNodes(nodes, { include, exclude })
FilterNodes ==
    /\ pc = "start"
    /\ nodes' = filterNodes(nodes, [include |-> ParamOrUndefined(request.include),
                                    exclude |-> ParamOrUndefined(request.exclude)])
    /\ pc' = "filtered"
    /\ UNCHANGED <<input, request, fetched, response, groupVars, linkVars, subVars, ruleVars, clashVars, convVars>>

\* GET: if (nodes.length === 0) return the 400 'No nodes remaining after filtering'
RejectFiltered ==
    /\ pc = "filtered"
    /\ nodes = <<>>
    /\ response' = [status |-> 400, error |-> "No nodes remaining after filtering"]
    /\ pc' = "done"
    /\ UNCHANGED <<nodes, input, request, fetched, groupVars, linkVars, subVars, ruleVars, clashVars, convVars>>

\* GET: nodes = deduplicateNodes(nodes), reached with the nodes that remain
KeepFiltered ==
    /\ pc = "filtered"
    /\ nodes # <<>>
    /\ pc' = "deduplicating"
    /\ UNCHANGED <<nodes, input, request, fetched, response, groupVars, linkVars, subVars, ruleVars, clashVars, convVars>>

NextFilter == FilterNodes \/ RejectFiltered \/ KeepFiltered

SpecFilter == InitFilter /\ [][NextFilter]_vars

\* a pattern that is given and compiles
Usable(pattern) == pattern # "" /\ RegExpCompile(pattern).ok

\* whether a display name is wanted by the request's patterns
Wanted(remark) ==
    /\ Usable(request.include) => RegExpTest(RegExpCompile(request.include), remark, FALSE)
    /\ Usable(request.exclude) => ~RegExpTest(RegExpCompile(request.exclude), remark, FALSE)

\* the positions of the input the filter keeps, in order
KeptPositions(i) ==
    {k \in 1..Len(input) : Wanted(input[k].remark) /\ k <= i}

\* C11: after filterNodes the node list is the input nodes, in input order,
\* whose display name matches the include pattern when one is given and
\* compiles, and does not match the exclude pattern when one is given and
\* compiles; a pattern that does not compile filters nothing and leaves the
\* other pattern in force.
C11_Filter ==
    pc # "start" =>
        /\ Len(nodes) = Cardinality(KeptPositions(Len(input)))
        /\ \A k \in KeptPositions(Len(input)) :
               nodes[Cardinality(KeptPositions(k))] = input[k]

\* an include pattern that does not compile, with an exclude pattern that
\* removed one of two nodes
C11_Witness ==
    /\ pc = "filtered"
    /\ request.include = "("
    /\ request.exclude = "HK"
    /\ Len(input) = 2
    /\ Len(nodes) = 1

-----------------------------------------------------------------------------
(* Rulesets (parsers/ruleset.ts) and the rule step of generateWithConfig   *)
(*                                                                         *)
(* parseRuleLine returns a rule or null; the model writes the result as    *)
(* the list of rules the caller pushes: <<>> for null, <<rule>> otherwise. *)
(* The group names the route looks for are written in ASCII: "{fish}"      *)
(* stands for the four-character catch-all name, "{other}" for the         *)
(* two-character one, and "{F} {fish}" for the default with its emoji.     *)

\* c.toUpperCase() for one character
UpperChar(c) ==
    IF Len(c) = 1 /\ Includes(LowerAlpha, c)
    THEN CharAt(UpperAlpha, IndexOf(LowerAlpha, c)) ELSE c

\* s.toUpperCase()
RECURSIVE ToUpperCase(_)
ToUpperCase(s) ==
    IF Len(s) <= 1 THEN UpperChar(s)
    ELSE ToUpperCase(SubSeq(s, 1, Len(s) \div 2))
         \o ToUpperCase(SubSeq(s, Len(s) \div 2 + 1, Len(s)))

RULE_TYPE_MAP ==
    [t \in {"DOMAIN", "DOMAIN-SUFFIX", "DOMAIN-KEYWORD", "IP-CIDR", "IP-CIDR6", "SRC-IP-CIDR",
            "SRC-PORT", "DST-PORT", "GEOIP", "MATCH", "FINAL", "PROCESS-NAME", "USER-AGENT",
            "URL-REGEX"} |->
        IF t = "FINAL" THEN "MATCH"
        ELSE IF t \in {"USER-AGENT", "URL-REGEX"} THEN "DOMAIN-KEYWORD"
        ELSE t]

\* /^[a-zA-Z0-9]([a-zA-Z0-9-]*\.)+[a-zA-Z]{2,}$/ or the same after `+.` with
\* the dotted part optional: the text after the last dot is two or more
\* letters, what precedes it is letters, digits, `-` and `.`, and the first
\* character is a letter or a digit
isValidDomain(str) ==
    LET Alpha == LowerAlpha \o UpperAlpha
        AlNum == Alpha \o Digits
        Only(s, allowed) == KeepChars(s, allowed) = s
        Letters(s) == Len(s) >= 2 /\ Only(s, Alpha)
        Dotted(s, dot) ==
            /\ dot >= 1
            /\ Includes(AlNum, CharAt(s, 0))
            /\ Only(Slice(s, 1, dot), AlNum \o "-.")
            /\ Letters(SliceFrom(s, dot + 1))
        Plain(s) == s # "" /\ Includes(AlNum, CharAt(s, 0)) /\ Letters(SliceFrom(s, 1))
    IN  \/ Dotted(str, LastIndexOf(str, "."))
        \/ /\ StartsWith(str, "+.")
           /\ \/ Dotted(SliceFrom(str, 2), LastIndexOf(SliceFrom(str, 2), "."))
              \/ Plain(SliceFrom(str, 2))

\* a port rule whose value carries a protocol suffix (443/udp, 80/tcp)
PortWithProtocolDst(mappedType, value) ==
    mappedType = "DST-PORT" /\ Includes(value, "/")

PortWithProtocol(mappedType, value) ==
    mappedType \in {"DST-PORT", "SRC-PORT"} /\ Includes(value, "/")

\* the types that get no-resolve when the line has no options
NoResolveByDefaultV4(mappedType) == mappedType = "IP-CIDR"

NoResolveByDefault(mappedType) == mappedType \in {"IP-CIDR", "IP-CIDR6"}

parseRuleLine(line, targetGroup) ==
    LET raw == Split(line, ",")
        parts == [i \in 1..Len(raw) |-> Trim(raw[i])]
        ruleType == ToUpperCase(parts[1])
        Built(mappedType, value, options) ==
            LET rule == mappedType \o "," \o value \o "," \o targetGroup
            IN  IF Len(parts) > 2 THEN
                    IF options # "" /\ ~Includes(options, "no-resolve") THEN
                        IF mappedType \in {"IP-CIDR", "IP-CIDR6", "GEOIP"}
                           /\ Includes(ToLowerCase(line), "no-resolve")
                        THEN rule \o ",no-resolve" ELSE rule
                    ELSE IF options # "" THEN rule \o "," \o options
                    ELSE rule
                ELSE IF NoResolveByDefault(mappedType) THEN rule \o ",no-resolve"
                ELSE rule
        Typed(mappedType, value) ==
            IF value = "" THEN <<>>
            ELSE IF PortWithProtocol(mappedType, value) THEN <<>>
            ELSE <<Built(mappedType, value, Join(SubSeq(parts, 3, Len(parts)), ","))>>
    IN  IF ~Includes(line, ",") /\ isValidDomain(line)
        THEN <<"DOMAIN-SUFFIX," \o line \o "," \o targetGroup>>
        ELSE IF Len(parts) < 2 THEN <<>>
        ELSE IF ruleType \notin DOMAIN RULE_TYPE_MAP THEN <<>>
        ELSE Typed(RULE_TYPE_MAP[ruleType], parts[2])

\* one pass of the loop of parseRulesetContent: the rules a raw line adds
RulesetLine(rawLine, targetGroup) ==
    LET line == Trim(rawLine)
        item == Trim(SliceFrom(line, 2))
        Quoted(q) == StartsWith(item, q) /\ EndsWith(item, q)
        ruleLine ==
            IF ~StartsWith(line, "- ") THEN line
            ELSE IF Quoted("'") \/ Quoted("\"") THEN Slice(item, 1, Len(item) - 1)
            ELSE item
    IN  IF line = "" \/ StartsWith(line, "#") \/ StartsWith(line, ";") \/ StartsWith(line, "//")
        THEN <<>>
        ELSE IF StartsWith(line, "payload:") THEN <<>>
        ELSE parseRuleLine(ruleLine, targetGroup)

RECURSIVE Flat(_)
Flat(lists) == IF lists = <<>> THEN <<>> ELSE Head(lists) \o Flat(Tail(lists))

parseRulesetContent(text, targetGroup) ==
    LET lines == Split(text, "\n")
    IN  Flat([i \in 1..Len(lines) |-> RulesetLine(lines[i], targetGroup)])

ACL4SSR_BASE_URL == "https://raw.githubusercontent.com/ACL4SSR/ACL4SSR/master/Clash/"

\* resolveRulesetUrl for relative references made of plain path segments,
\* for which new URL(path, base).href is the base directory plus the path
resolveRulesetUrl(ruleset, baseUrl) ==
    LET baseDir == Slice(baseUrl, 0, LastIndexOf(baseUrl, "/") + 1)
        acl == "rules/acl4ssr/clash/"
    IN  IF StartsWith(ruleset, "http://") \/ StartsWith(ruleset, "https://") THEN ruleset
        ELSE IF StartsWith(ruleset, "rules/") THEN
            IF StartsWith(ToLowerCase(ruleset), acl) /\ Len(ruleset) > Len(acl)
            THEN ACL4SSR_BASE_URL \o SliceFrom(ruleset, Len(acl))
            ELSE IF ~Falsy(baseUrl) THEN baseDir \o SliceFrom(ruleset, Len("rules/"))
            ELSE ACL4SSR_BASE_URL \o ruleset
        ELSE IF ~Falsy(baseUrl) THEN baseDir \o ruleset
        ELSE ruleset

\* the rule step of generateWithConfig once loadAllRulesets has returned
ensureMatch(loaded, groupNames) ==
    LET catchAll == {i \in 1..Len(groupNames) :
                        \/ Includes(groupNames[i], "{fish}")
                        \/ Includes(groupNames[i], "{other}")
                        \/ Includes(groupNames[i], "Final")}
        first == CHOOSE i \in catchAll : \A j \in catchAll : i <= j
        name == IF catchAll = {} THEN "{F} {fish}" ELSE OrElse(groupNames[first], "{F} {fish}")
    IN  IF \E i \in 1..Len(loaded) : StartsWith(loaded[i], "MATCH,") THEN loaded
        ELSE Append(loaded, "MATCH," \o name)

MaxRulesets == 2
RuleGroups == {"Proxy", "Final"}
ConfigUrl == "https://c.io/d/my.ini"
InlineRulesets ==
    {"[]DOMAIN,a.com", "[]FINAL", "[]DST-PORT,443/udp", "[]SRC-PORT,80"}
RemoteRulesets == {"https://r.io/a.list", "rules/ACL4SSR/Clash/a.list", "b.list"}
RulesetConfig == [group : RuleGroups, ruleset : InlineRulesets \cup RemoteRulesets]
RulesetBodies ==
    {"",
     "DOMAIN,a.com\nFINAL,x\n+.b.org\n",
     "payload:\n  - 'DST-PORT,443/udp'\n  - SRC-PORT,80/tcp\n",
     "# list\nip-cidr,1.2.3.4/32\nIP-CIDR6,::1/128,no-resolve\nIP-CIDR,5.6.7.8/8,extra\nIP-CIDR6,::2/128\nIP-CIDR,9.9.9.9/32,NO-RESOLVE\nUSER-AGENT,curl*\n"}
GroupNameLists == {<<>>, <<"Proxy", "x Final">>, <<"Auto", "{other} 1", "{fish}">>}
StaleCache == ("https://r.io/a.list" :> "DOMAIN,old.com")

InitRules ==
    /\ pc = "start"
    /\ parsedConfig \in [enableRuleGenerator : BOOLEAN,
                         rulesets : SeqUpTo(RulesetConfig, MaxRulesets)]
    /\ proxyGroups \in GroupNameLists
    /\ rulesetCache \in {<<>>, StaleCache}
    /\ entry = 0
    /\ allRules = <<>>
    /\ rules = <<>>
    /\ fetchLog = <<>>
    /\ IdleDedup /\ IdleGroups /\ IdleLinks /\ IdleSub /\ IdleRoute /\ IdleClash /\ IdleConv

\* generateWithConfig up to the rule step: the cache is cleared, and the
\* rulesets are loaded only when the config enables the rule generator
ClearRulesetCache ==
    /\ pc = "start"
    /\ rulesetCache' = <<>>
    /\ IF parsedConfig.enableRuleGenerator /\ Len(parsedConfig.rulesets) > 0
       THEN pc' = "loading" /\ entry' = 1
       ELSE pc' = "generating" /\ entry' = entry
    /\ UNCHANGED <<parsedConfig, proxyGroups, allRules, rules, fetchLog>>
    /\ UNCHANGED <<dedupVars, groupVars, linkVars, subVars, routeVars, clashVars, convVars>>

\* loadAllRulesets is suspended at `await loadRuleset`: the last fetch
\* issued has not settled
Awaiting == fetchLog # <<>> /\ fetchLog[Len(fetchLog)].outcome = "pending"

\* the loop of loadAllRulesets is at an entry and is not suspended
Loading == pc = "loading" /\ entry <= Len(parsedConfig.rulesets) /\ ~Awaiting

IsInline(config) == StartsWith(config.ruleset, "[]")

ResolvedUrl(config) == resolveRulesetUrl(config.ruleset, ConfigUrl)

\* what loadAllRulesets pushes for the body loadRuleset returned
Translated(body, targetGroup) ==
    IF body = "" THEN <<>> ELSE parseRulesetContent(body, targetGroup)

\* allRules.push(...rules), and the same with the rules put in front
UnshiftRules(all, new) == new \o all

PushRules(all, new) == all \o new

\* rulesetCache.set(url, content), and a loadRuleset that stores nothing
CacheSkip(cache, url, body) == cache

CacheSet(cache, url, body) == (url :> body) @@ cache

\* the last fetch of the log settled with the given outcome
Settled(log, outcome) == [log EXCEPT ![Len(log)].outcome = outcome]

\* loadAllRulesets, an inline entry
InlineRule ==
    /\ Loading
    /\ IsInline(parsedConfig.rulesets[entry])
    /\ allRules' = PushRules(allRules,
                             parseRuleLine(SliceFrom(parsedConfig.rulesets[entry].ruleset, 2),
                                           parsedConfig.rulesets[entry].group))
    /\ entry' = entry + 1
    /\ UNCHANGED <<pc, parsedConfig, proxyGroups, rulesetCache, rules, fetchLog>>
    /\ UNCHANGED <<dedupVars, groupVars, linkVars, subVars, routeVars, clashVars, convVars>>

\* loadAllRulesets, a remote entry whose body loadRuleset finds in the cache
CachedRuleset ==
    /\ Loading
    /\ ~IsInline(parsedConfig.rulesets[entry])
    /\ ResolvedUrl(parsedConfig.rulesets[entry]) \in DOMAIN rulesetCache
    /\ allRules' = PushRules(allRules,
                             Translated(rulesetCache[ResolvedUrl(parsedConfig.rulesets[entry])],
                                        parsedConfig.rulesets[entry].group))
    /\ entry' = entry + 1
    /\ UNCHANGED <<pc, parsedConfig, proxyGroups, rulesetCache, rules, fetchLog>>
    /\ UNCHANGED <<dedupVars, groupVars, linkVars, subVars, routeVars, clashVars, convVars>>

\* loadRuleset for a URL that is not in the cache, up to `await fetchText`
StartFetch ==
    /\ Loading
    /\ ~IsInline(parsedConfig.rulesets[entry])
    /\ ResolvedUrl(parsedConfig.rulesets[entry]) \notin DOMAIN rulesetCache
    /\ fetchLog' = Append(fetchLog, [entry |-> entry,
                                     url |-> ResolvedUrl(parsedConfig.rulesets[entry]),
                                     outcome |-> "pending"])
    /\ UNCHANGED <<pc, parsedConfig, proxyGroups, rulesetCache, entry, allRules, rules>>
    /\ UNCHANGED <<dedupVars, groupVars, linkVars, subVars, routeVars, clashVars, convVars>>

\* the fetch returns a body: loadRuleset caches and returns it, and
\* loadAllRulesets pushes its rules
FetchRuleset ==
    /\ pc = "loading"
    /\ Awaiting
    /\ \E body \in RulesetBodies :
        /\ rulesetCache' = CacheSet(rulesetCache, fetchLog[Len(fetchLog)].url, body)
        /\ allRules' = PushRules(allRules, Translated(body, parsedConfig.rulesets[entry].group))
    /\ entry' = entry + 1
    /\ fetchLog' = Settled(fetchLog, "ok")
    /\ UNCHANGED <<pc, parsedConfig, proxyGroups, rules>>
    /\ UNCHANGED <<dedupVars, groupVars, linkVars, subVars, routeVars, clashVars, convVars>>

\* the fetch throws: loadRuleset returns '' and nothing is pushed
FetchRulesetFails ==
    /\ pc = "loading"
    /\ Awaiting
    /\ entry' = entry + 1
    /\ fetchLog' = Settled(fetchLog, "failed")
    /\ UNCHANGED <<pc, parsedConfig, proxyGroups, rulesetCache, allRules, rules>>
    /\ UNCHANGED <<dedupVars, groupVars, linkVars, subVars, routeVars, clashVars, convVars>>

\* generateWithConfig after loadAllRulesets returned: the MATCH rule
EnsureMatch ==
    /\ pc = "loading"
    /\ entry > Len(parsedConfig.rulesets)
    /\ rules' = ensureMatch(allRules, proxyGroups)
    /\ pc' = "generating"
    /\ UNCHANGED <<parsedConfig, proxyGroups, rulesetCache, entry, allRules, fetchLog>>
    /\ UNCHANGED <<dedupVars, groupVars, linkVars, subVars, routeVars, clashVars, convVars>>

NextRules ==
    \/ ClearRulesetCache
    \/ InlineRule
    \/ CachedRuleset
    \/ StartFetch
    \/ FetchRuleset
    \/ FetchRulesetFails
    \/ EnsureMatch

SpecRules == InitRules /\ [][NextRules]_vars

IsMatchRule(rule) == StartsWith(rule, "MATCH,")

RulesTranslated ==
    pc = "generating" /\ parsedConfig.enableRuleGenerator /\ Len(parsedConfig.rulesets) > 0

\* C12: once the rulesets of a full-config conversion are translated, the
\* rule list handed to the generator holds exactly one MATCH rule and that
\* rule is its last element, whatever the rulesets contained
C12_OneMatchLast ==
    RulesTranslated =>
        /\ rules # <<>>
        /\ IsMatchRule(rules[Len(rules)])
        /\ \A i \in 1..(Len(rules) - 1) : ~IsMatchRule(rules[i])

\* C14: a DST-PORT or SRC-PORT line whose value holds a `/` adds no rule,
\* whether it is an inline entry or a line of a fetched body: no rule of
\* either type in the loaded list has a `/` in its value
C14_PortSuffixDropped ==
    \A i \in 1..Len(allRules) :
        (StartsWith(allRules[i], "DST-PORT,") \/ StartsWith(allRules[i], "SRC-PORT,"))
            => ~Includes(Split(allRules[i], ",")[2], "/")


C14_Witness ==
    /\ pc = "loading"
    /\ entry = 3
    /\ parsedConfig.rulesets[1].ruleset = "[]DST-PORT,443/udp"
    /\ parsedConfig.rulesets[2].ruleset = "b.list"
    /\ rulesetCache = ("https://c.io/d/b.list" :> "payload:\n  - 'DST-PORT,443/udp'\n  - SRC-PORT,80/tcp\n")
    /\ allRules = <<>>

\* C22: the inline entry []FINAL of group G adds the rule MATCH,G: once
\* loadAllRulesets has handled it as the first entry, allRules is that rule
C22_InlineFinal ==
    (/\ pc = "loading"
     /\ entry = 2
     /\ parsedConfig.rulesets[1].ruleset = "[]FINAL")
    => allRules = <<"MATCH," \o parsedConfig.rulesets[1].group>>

\* the trimmed comma-separated fields of a raw ruleset line
RuleFields(rawLine) ==
    LET raw == Split(Trim(rawLine), ",")
    IN  [i \in 1..Len(raw) |-> Trim(raw[i])]

IsIpCidrLine(rawLine) ==
    /\ Len(RuleFields(rawLine)) >= 2
    /\ ToUpperCase(RuleFields(rawLine)[1]) \in {"IP-CIDR", "IP-CIDR6"}

\* a trailing option of the line asks for no-resolve, in any letter case
RequestsNoResolve(rawLine) ==
    \E k \in 3..Len(RuleFields(rawLine)) : ToLowerCase(RuleFields(rawLine)[k]) = "no-resolve"

\* the rule of the loaded list translated from an IP-CIDR line has the
\* no-resolve marker the line calls for
IpRuleMarked(rawLine, targetGroup) ==
    LET parts == RuleFields(rawLine)
        prefix == ToUpperCase(parts[1]) \o "," \o parts[2] \o "," \o targetGroup
    IN  \E r \in 1..Len(allRules) :
            /\ StartsWith(allRules[r], prefix)
            /\ IF Len(parts) = 2
               THEN SliceFrom(allRules[r], Len(prefix)) = ",no-resolve"
               ELSE Includes(SliceFrom(allRules[r], Len(prefix)), "no-resolve")
                        <=> RequestsNoResolve(rawLine)

\* the entries loadAllRulesets has handled with a body: the last entry
\* naming each URL that is in the cache (an earlier one may have failed)
LoadedRemote ==
    {i \in 1..(entry - 1) :
        /\ pc = "loading"
        /\ ~IsInline(parsedConfig.rulesets[i])
        /\ ResolvedUrl(parsedConfig.rulesets[i]) \in DOMAIN rulesetCache
        /\ \A j \in (i + 1)..(entry - 1) :
               ResolvedUrl(parsedConfig.rulesets[j]) # ResolvedUrl(parsedConfig.rulesets[i])}

LoadedLines(i) == Split(rulesetCache[ResolvedUrl(parsedConfig.rulesets[i])], "\n")

Contribution(i) ==
    IF IsInline(parsedConfig.rulesets[i])
    THEN parseRuleLine(SliceFrom(parsedConfig.rulesets[i].ruleset, 2), parsedConfig.rulesets[i].group)
    ELSE IF \E e \in 1..Len(fetchLog) : fetchLog[e].entry = i /\ fetchLog[e].outcome = "failed"
    THEN <<>>
    ELSE IF ResolvedUrl(parsedConfig.rulesets[i]) \in DOMAIN rulesetCache
    THEN Translated(rulesetCache[ResolvedUrl(parsedConfig.rulesets[i])], parsedConfig.rulesets[i].group)
    ELSE <<>>

\* C25: loadAllRulesets handles the entries one at a time in declaration
\* order: only the last fetch issued can be pending and it belongs to the
\* current entry, fetches are issued for increasing entries, a failed
\* fetch adds no rule and the loop still reaches the end of the list, and
\* the rule list is the concatenation of the entries' rules in order
C25_Sequential ==
    /\ \A e \in 1..Len(fetchLog) :
        fetchLog[e].outcome = "pending" => e = Len(fetchLog) /\ fetchLog[e].entry = entry
    /\ \A e \in 1..(Len(fetchLog) - 1) : fetchLog[e].entry < fetchLog[e + 1].entry
    /\ allRules = Flat([i \in 1..(entry - 1) |-> Contribution(i)])
    /\ RulesTranslated => entry = Len(parsedConfig.rulesets) + 1

C25_Witness ==
    /\ pc = "generating"
    /\ Len(fetchLog) = 2
    /\ fetchLog[1].outcome = "failed"
    /\ fetchLog[2].outcome = "ok"
    /\ parsedConfig.rulesets[1].ruleset = "b.list"
    /\ parsedConfig.rulesets[2] = [group |-> "Final", ruleset |-> "https://r.io/a.list"]
    /\ allRules = <<"DOMAIN,a.com,Final", "MATCH,x,Final", "DOMAIN-SUFFIX,+.b.org,Final">>

\* C30: within one loadAllRulesets call a URL that was fetched with success
\* is not fetched again, and a URL whose fetches all failed is not in the
\* cache, so the next entry naming it is fetched anew
C30_FetchedOnce ==
    /\ \A e \in 1..Len(fetchLog) : \A f \in (e + 1)..Len(fetchLog) :
        fetchLog[e].url = fetchLog[f].url => fetchLog[e].outcome = "failed"
    /\ \A e \in 1..Len(fetchLog) :
        (\A f \in 1..Len(fetchLog) :
            fetchLog[f].url = fetchLog[e].url => fetchLog[f].outcome # "ok")
        => fetchLog[e].url \notin DOMAIN rulesetCache

C30_Witness ==
    /\ pc = "loading"
    /\ entry = 3
    /\ parsedConfig.rulesets[1] = [group |-> "Proxy", ruleset |-> "b.list"]
    /\ parsedConfig.rulesets[2] = [group |-> "Final", ruleset |-> "b.list"]
    /\ fetchLog = <<[entry |-> 1, url |-> "https://c.io/d/b.list", outcome |-> "ok"]>>
    /\ allRules = <<"DOMAIN,a.com,Proxy", "MATCH,x,Proxy", "DOMAIN-SUFFIX,+.b.org,Proxy",
                    "DOMAIN,a.com,Final", "MATCH,x,Final", "DOMAIN-SUFFIX,+.b.org,Final">>

\* a URL whose fetch failed at one entry is fetched again at the next
C30_Refetched ==
    /\ Len(fetchLog) = 2
    /\ fetchLog[1].url = fetchLog[2].url
    /\ fetchLog[1].outcome = "failed"
    /\ fetchLog[2].outcome = "ok"

-----------------------------------------------------------------------------
(* GET (app/api/sub/route.ts) from the fetch to the parsed nodes, and      *)
(* fetchSubscription (utils/fetch.ts)                                      *)
(*                                                                         *)
(* `fetched` holds what fetchText did for each URL of the list: a body, or *)
(* a throw (HTTP status not ok, timeout, network error).                   *)

FetchedBodies ==
    {"", "\n", "trojan://pw@h.io:443#a", "hy2://pw@h.io:8443#b", "not a link"}
FetchOutcomes == [ok : {TRUE}, text : FetchedBodies] \cup {[ok |-> FALSE, text |-> ""]}
SubscriptionUrls == {"https://s.io/a", "https://s.io/a|https://s.io/b", " https://s.io/a | "}

\* urls.split('|').map(u => u.trim()).filter(Boolean)
RECURSIVE NonEmpty(_)
NonEmpty(texts) ==
    IF texts = <<>> THEN <<>>
    ELSE IF Head(texts) = "" THEN NonEmpty(Tail(texts))
    ELSE <<Head(texts)>> \o NonEmpty(Tail(texts))

urlList(urls) ==
    LET parts == Split(urls, "|")
    IN  NonEmpty([i \in 1..Len(parts) |-> Trim(parts[i])])

\* fetchSubscription for the given outcome of each fetchText: a throw is
\* caught and logged, an empty body is not pushed, the rest is joined
fetchSubscription(outcomes) ==
    Join(NonEmpty([i \in 1..Len(outcomes) |->
                      IF outcomes[i].ok THEN outcomes[i].text ELSE ""]), "\n")

InitRoute ==
    /\ pc = "fetching"
    /\ request \in [url : SubscriptionUrls]
    /\ fetched = Null
    /\ response = Null
    /\ IdleDedup /\ IdleGroups /\ IdleLinks /\ IdleSub /\ IdleRules /\ IdleClash /\ IdleConv

\* GET: content = await fetchSubscription(decodedUrl), then the 400 for a
\* falsy content
FetchSubscription ==
    /\ pc = "fetching"
    /\ \E outcomes \in [1..Len(urlList(urlDecode(request.url))) -> FetchOutcomes] :
        /\ fetched' = outcomes
        /\ content' = [text |-> fetchSubscription(outcomes), doc |-> YamlDoc(YamlAbsent, YamlAbsent)]
    /\ IF content'.text = ""
       THEN /\ response' = [status |-> 400, error |-> "Failed to fetch subscription content"]
            /\ pc' = "failed"
       ELSE /\ response' = response
            /\ pc' = "start"
    /\ UNCHANGED <<request, subNodes, dedupVars, groupVars, linkVars, ruleVars, clashVars, convVars>>

NextRoute == FetchSubscription \/ ParseSubscription \/ RejectEmpty \/ PassOn

SpecRoute == InitRoute /\ [][NextRoute]_vars

\* every URL of the request was fetched without error and every body is empty
EmptyBodyFetched ==
    /\ pc = "failed"
    /\ \A i \in 1..Len(fetched) : fetched[i].ok /\ fetched[i].text = ""

\* C13: when every fetch succeeds and the fetched body is empty, the request
\* ends with the 400 that says no valid nodes were found, the message of an
\* empty result and not that of a failed fetch
C13_EmptyBodyNoNodes ==
    EmptyBodyFetched =>
        /\ response.status = 400
        /\ response.error = "No valid nodes found in subscription"

-----------------------------------------------------------------------------
(* Proxy names of the Clash document (generators/clash.ts)                 *)
(*                                                                         *)
(* "{TW}" and "{CN}" stand for the two regional-indicator flags that       *)
(* ensureUniqueName replaces one by the other.                             *)

getTypeName(type) ==
    CASE type = "unknown" -> "Unknown"
      [] type = "ss" -> "SS"
      [] type = "ssr" -> "SSR"
      [] type = "vmess" -> "VMess"
      [] type = "trojan" -> "Trojan"
      [] type = "snell" -> "Snell"
      [] type = "http" -> "HTTP"
      [] type = "https" -> "HTTPS"
      [] type = "socks5" -> "SOCKS5"
      [] type = "wireguard" -> "WireGuard"
      [] type = "hysteria" -> "Hysteria"
      [] type = "hysteria2" -> "Hysteria2"
      [] OTHER -> "Unknown"

\* the while loop of ensureUniqueName
RECURSIVE NextFreeName(_, _, _)
NextFreeName(safeName, existing, counter) ==
    IF safeName \o " " \o NatToString(counter) \in existing
    THEN NextFreeName(safeName, existing, counter + 1)
    ELSE safeName \o " " \o NatToString(counter)

\* the name is looked up before the substitutions are made
ensureUniqueNameUnsafe(name, existing) ==
    IF name \notin existing THEN ReplaceAll(ReplaceAll(name, "=", "-"), "{TW}", "{CN}")
    ELSE NextFreeName(ReplaceAll(ReplaceAll(name, "=", "-"), "{TW}", "{CN}"), existing, 2)

ensureUniqueName(name, existing) ==
    LET Unique(safeName) ==
            IF safeName \notin existing THEN safeName ELSE NextFreeName(safeName, existing, 2)
    IN  Unique(ReplaceAll(ReplaceAll(name, "=", "-"), "{TW}", "{CN}"))

\* the name nodeToClashProxy starts from
DisplayName(node, opts) ==
    IF opts.appendType THEN "[" \o getTypeName(node.type) \o "] " \o node.remark ELSE node.remark

\* the types nodeToClashProxy has a builder for
ClashSupported(node) == node.type \in {"ss", "ssr", "vmess", "trojan", "hysteria2"}

\* nodeToClashProxy: name, type, server and port of the entry, null for a
\* type without a builder
nodeToClashProxy(node, opts, existingRemarks) ==
    IF ClashSupported(node)
    THEN [name |-> ensureUniqueName(DisplayName(node, opts), existingRemarks),
          type |-> node.type, server |-> node.hostname, port |-> node.port]
    ELSE Null

\* the loop of generateClash and of generateFullClashConfig
RECURSIVE clashProxies(_, _, _, _)
clashProxies(rest, opts, emitted, remarks) ==
    LET Push(proxy) ==
            IF IsNull(proxy) THEN clashProxies(Tail(rest), opts, emitted, remarks)
            ELSE clashProxies(Tail(rest), opts, Append(emitted, proxy), remarks \cup {proxy.name})
    IN  IF rest = <<>> THEN emitted ELSE Push(nodeToClashProxy(Head(rest), opts, remarks))

MaxClashNodes == 3
ClashRemarks == {"a", "a 2", "a=b", "a-b", "{TW}", "{CN}"}
ClashNode == [remark : ClashRemarks, type : {"ss", "snell"}, hostname : {"h.io"}, port : {Num(443)}]

InitClash ==
    /\ pc = "generating"
    /\ input \in SeqUpTo(ClashNode, MaxClashNodes)
    /\ nodes = input
    /\ request \in [config : {"", "https://c.io/d/my.ini"}]
    /\ generatorOptions \in [appendType : BOOLEAN]
    /\ clashProxySeq = <<>>
    /\ fetched = Null
    /\ response = Null
    /\ IdleGroups /\ IdleLinks /\ IdleSub /\ IdleRules /\ IdleConv

\* GET without a config: generate(nodes, target, options), the proxies-only
\* document of generateClash
GenerateClash ==
    /\ pc = "generating"
    /\ Falsy(ParamOrUndefined(request.config))
    /\ clashProxySeq' = clashProxies(nodes, generatorOptions, <<>>, {})
    /\ pc' = "clash"
    /\ UNCHANGED <<generatorOptions, dedupVars, groupVars, linkVars, subVars, routeVars, ruleVars, convVars>>

\* GET with a config: generateWithConfig ends in generateFullClashConfig
GenerateFullClashConfig ==
    /\ pc = "generating"
    /\ ~Falsy(ParamOrUndefined(request.config))
    /\ clashProxySeq' = clashProxies(nodes, generatorOptions, <<>>, {})
    /\ pc' = "full"
    /\ UNCHANGED <<generatorOptions, dedupVars, groupVars, linkVars, subVars, routeVars, ruleVars, convVars>>

NextClash == GenerateClash \/ GenerateFullClashConfig

SpecClash == InitClash /\ [][NextClash]_vars

\* C15: the names of the proxies list are pairwise distinct; each is the
\* display name with `=` and the flag substituted when no earlier entry has
\* that name, and otherwise that name followed by the smallest number from 2
\* on that gives a name no earlier entry has
C15_UniqueNames ==
    pc \in {"clash", "full"} =>
        LET emitted == SelectSeq(nodes, ClashSupported)
            Typed(i) == IF generatorOptions.appendType
                        THEN "[SS] " \o emitted[i].remark ELSE emitted[i].remark
            Base(i) == ReplaceAll(ReplaceAll(Typed(i), "=", "-"), "{TW}", "{CN}")
            Earlier(i) == {clashProxySeq[j].name : j \in 1..(i - 1)}
            Suffixed(i, c) == Base(i) \o " " \o NatToString(c)
        IN  /\ Len(clashProxySeq) = Len(emitted)
            /\ \A i, j \in 1..Len(clashProxySeq) : i # j => clashProxySeq[i].name # clashProxySeq[j].name
            /\ \A i \in 1..Len(clashProxySeq) :
                IF Base(i) \notin Earlier(i) THEN clashProxySeq[i].name = Base(i)
                ELSE \E c \in 2..(i + 1) :
                        /\ clashProxySeq[i].name = Suffixed(i, c)
                        /\ Suffixed(i, c) \notin Earlier(i)
                        /\ \A d \in 2..(c - 1) : Suffixed(i, d) \in Earlier(i)

C15_Witness ==
    /\ pc = "full"
    /\ Len(clashProxySeq) = 3
    /\ input[1].remark = "a=b"
    /\ clashProxySeq[1].name = "a-b"
    /\ clashProxySeq[2].name = "a-b 2"
    /\ clashProxySeq[3].name = "a-b 3"

-----------------------------------------------------------------------------
(* Concurrent full-config conversions (generateWithConfig) on one process  *)
(*                                                                         *)
(* rulesetCache is the module-level Map of ruleset.ts, shared by every     *)
(* request the process serves. A conversion runs until its next `await`    *)
(* and other conversions run while it is suspended. A fetched body is      *)
(* written as the time at which its fetch was issued.                      *)

MaxConversions == 2
Conversions == 1..MaxConversions
ConversionRulesets ==
    {<<"https://r.io/a.list">>,
     <<"https://r.io/a.list", "https://c.io/d/b.list">>,
     <<"https://c.io/d/b.list", "https://r.io/a.list">>}

\* a request that has not reached generateWithConfig
Arriving == [pc |-> "arriving", cleared |-> 0, rulesets |-> <<>>, entry |-> 0,
             issued |-> 0, translated |-> <<>>]

InitConversions ==
    /\ pc = "serving"
    /\ clock = 0
    /\ conversions = [r \in Conversions |-> Arriving]
    /\ IdleDedup /\ IdleGroups /\ IdleLinks /\ IdleSub /\ IdleRoute /\ IdleRules /\ IdleClash

ConversionFrame ==
    UNCHANGED <<pc, parsedConfig, proxyGroups, entry, allRules, rules, fetchLog,
                dedupVars, groupVars, linkVars, subVars, routeVars, clashVars>>

\* generateWithConfig up to `await fetchText(decodedConfigUrl)`
StartConversion(r) ==
    /\ conversions[r].pc = "arriving"
    /\ clock' = clock + 1
    /\ rulesetCache' = <<>>
    /\ conversions' = [conversions EXCEPT ![r].pc = "config", ![r].cleared = clock + 1]
    /\ ConversionFrame

\* the config arrives: parseConfig, generateProxyGroups, and loadAllRulesets
\* starts at its first entry
ConfigFetched(r) ==
    /\ conversions[r].pc = "config"
    /\ \E listed \in ConversionRulesets :
        conversions' = [conversions EXCEPT ![r].pc = "loading", ![r].rulesets = listed,
                                           ![r].entry = 1]
    /\ UNCHANGED <<clock, rulesetCache>>
    /\ ConversionFrame

\* the config fetch throws or returns nothing: the conversion ends
ConfigFails(r) ==
    /\ conversions[r].pc = "config"
    /\ conversions' = [conversions EXCEPT ![r].pc = "failed"]
    /\ UNCHANGED <<clock, rulesetCache>>
    /\ ConversionFrame

AtEntry(r) ==
    conversions[r].pc = "loading" /\ conversions[r].entry <= Len(conversions[r].rulesets)

EntryUrl(r) == conversions[r].rulesets[conversions[r].entry]

\* loadRuleset finds the URL in the cache: the cached body is translated
CacheHit(r) ==
    /\ AtEntry(r)
    /\ EntryUrl(r) \in DOMAIN rulesetCache
    /\ conversions' = [conversions EXCEPT
            ![r].translated = Append(@, rulesetCache[EntryUrl(r)]),
            ![r].entry = @ + 1]
    /\ UNCHANGED <<clock, rulesetCache>>
    /\ ConversionFrame

\* loadRuleset does not find the URL: up to `await fetchText(url)`
IssueFetch(r) ==
    /\ AtEntry(r)
    /\ EntryUrl(r) \notin DOMAIN rulesetCache
    /\ clock' = clock + 1
    /\ conversions' = [conversions EXCEPT ![r].pc = "fetching", ![r].issued = clock + 1]
    /\ UNCHANGED rulesetCache
    /\ ConversionFrame

\* the body arrives: rulesetCache.set(url, content), and it is translated
FetchReturns(r) ==
    /\ conversions[r].pc = "fetching"
    /\ rulesetCache' = CacheSet(rulesetCache, EntryUrl(r), conversions[r].issued)
    /\ conversions' = [conversions EXCEPT
            ![r].pc = "loading",
            ![r].translated = Append(@, conversions[r].issued),
            ![r].entry = @ + 1]
    /\ UNCHANGED clock
    /\ ConversionFrame

\* the fetch throws: nothing is cached or translated
FetchThrows(r) ==
    /\ conversions[r].pc = "fetching"
    /\ conversions' = [conversions EXCEPT ![r].pc = "loading", ![r].entry = @ + 1]
    /\ UNCHANGED <<clock, rulesetCache>>
    /\ ConversionFrame

\* loadAllRulesets returns and the document is generated
FinishConversion(r) ==
    /\ conversions[r].pc = "loading"
    /\ conversions[r].entry > Len(conversions[r].rulesets)
    /\ conversions' = [conversions EXCEPT ![r].pc = "done"]
    /\ UNCHANGED <<clock, rulesetCache>>
    /\ ConversionFrame

NextConversions ==
    \/ \E r \in Conversions : StartConversion(r)
    \/ \E r \in Conversions : ConfigFetched(r)
    \/ \E r \in Conversions : ConfigFails(r)
    \/ \E r \in Conversions : CacheHit(r)
    \/ \E r \in Conversions : IssueFetch(r)
    \/ \E r \in Conversions : FetchReturns(r)
    \/ \E r \in Conversions : FetchThrows(r)
    \/ \E r \in Conversions : FinishConversion(r)

SpecConversions == InitConversions /\ [][NextConversions]_vars

\* C24: every body a conversion translates comes from a fetch issued after
\* the conversion's own clearRulesetCache call
C24_FreshPerRequest ==
    \A r \in DOMAIN conversions :
        \A k \in 1..Len(conversions[r].translated) :
            conversions[r].translated[k] > conversions[r].cleared

-----------------------------------------------------------------------------
(* The groups and the proxies list of one full document                    *)
(* (generateWithConfig: generateProxyGroups, then generateFullClashConfig) *)
(*                                                                         *)
(* sanitizeProxyName (utils/string) takes the remark alone; its body is    *)
(* not part of the sources at hand, so the model lets it be either the     *)
(* remark as it is or the remark with the substitutions ensureUniqueName   *)
(* makes. "{rocket}", "{target}" and "{F} {fish}" stand for the names of   *)
(* the three default groups.                                               *)

MaxDocumentNodes == 2
Sanitizers == {"keep", "substitute"}

sanitizeProxyName(how, remark) ==
    IF how = "keep" THEN remark
    ELSE ReplaceAll(ReplaceAll(remark, "=", "-"), "{TW}", "{CN}")

generateDefaultProxyGroups(names) ==
    IF names = <<>> THEN <<>>
    ELSE <<[name |-> "{rocket}", type |-> "select", proxies |-> names \o <<"DIRECT">>],
           [name |-> "{target}", type |-> "select", proxies |-> <<"DIRECT", "{rocket}">>],
           [name |-> "{F} {fish}", type |-> "select",
            proxies |-> <<"{rocket}", "{target}">> \o names]>>

DocumentNode ==
    [remark : {"a", "b", "a=b"}, type : {"ss", "trojan"}, hostname : {"h.io"}, port : {Num(443)}]

DocumentGroupLines ==
    {<<>>,
     <<"G~select~.*~[]DIRECT">>,
     <<"G~select~[]a~[]G~[]DIRECT", "H~url-test~(a|b)~http://t~300">>}

InitDocument ==
    /\ pc = "config"
    /\ input \in SeqUpTo(DocumentNode, MaxDocumentNodes) \ {<<>>}
    /\ nodes = input
    /\ groupLines \in DocumentGroupLines
    /\ proxyNames = <<>>
    /\ configs = <<>> /\ cursor = 0 /\ group = Null /\ generatedGroups = <<>>
    /\ request = [config |-> "https://c.io/d/my.ini"]
    /\ generatorOptions \in [appendType : BOOLEAN]
    /\ clashProxySeq = <<>>
    /\ fetched = Null
    /\ response = Null
    /\ IdleLinks /\ IdleSub /\ IdleRules /\ IdleConv

\* generateWithConfig: parseConfig(configContent), and the head of
\* generateProxyGroups, which takes the names of the nodes
ParseFetchedConfig ==
    /\ pc = "config"
    /\ configs' = parseConfigGroups(groupLines)
    /\ \E how \in Sanitizers :
           proxyNames' = [i \in 1..Len(nodes) |-> sanitizeProxyName(how, nodes[i].remark)]
    /\ pc' = "parsed"
    /\ UNCHANGED <<groupLines, cursor, group, generatedGroups,
                   dedupVars, linkVars, subVars, routeVars, ruleVars, clashVars, convVars>>

\* generateWithConfig: the default groups when the config resolves to none
UseGroups ==
    /\ pc = "resolved"
    /\ generatedGroups' = IF generatedGroups = <<>> THEN generateDefaultProxyGroups(proxyNames)
                          ELSE generatedGroups
    /\ pc' = "generating"
    /\ UNCHANGED <<groupLines, proxyNames, configs, cursor, group,
                   dedupVars, linkVars, subVars, routeVars, ruleVars, clashVars, convVars>>

NextDocument ==
    \/ ParseFetchedConfig
    \/ ResolveGroup
    \/ ReturnGroups
    \/ UseGroups
    \/ GenerateFullClashConfig

SpecDocument == InitDocument /\ [][NextDocument]_vars

\* the names of the groups of the document
DocumentGroupNames == {generatedGroups[k].name : k \in 1..Len(generatedGroups)}

\* C29: in a full document every member of a group that is a node name
\* (not DIRECT, REJECT or a group name) is the name of an entry of the
\* proxies list
C29_MembersAreProxies ==
    pc = "full" =>
        \A k \in 1..Len(generatedGroups) :
            \A i \in 1..Len(generatedGroups[k].proxies) :
                generatedGroups[k].proxies[i]
                    \in SPECIAL_PROXIES \cup DocumentGroupNames \cup GroupNames(configs)
                        \cup {clashProxySeq[j].name : j \in 1..Len(clashProxySeq)}

=============================================================================
